---- MODULE Spec2Model ----
(***************************************************************************)
(* State-machine model of the amodevices laboratory device drivers.        *)
(*                                                                         *)
(* Every driver object is an independent instance with its own transport;  *)
(* a behaviour of the model exercises one driver under test (dut), chosen  *)
(* in the initial state.  Vendor libraries (pylablib, PyDAQmx, pyserial,   *)
(* the Kinesis DLL) are the environment: each call into them succeeds or   *)
(* fails nondeterministically in the ways the library can.                 *)
(***************************************************************************)
EXTENDS Integers, Sequences, FiniteSets, TLC

VARIABLES
    dut,                    \* the driver instance a behaviour exercises
    now,                    \* time.time(), in ticks of half a cache interval
    \* ---- ThorlabsKPA101 (thorlabs_kpa101.py)
    kpa_device_connected,   \* self.device_connected
    kpa_handle,             \* self.KinesisQuadDetector: "none" | "open" | "closed"
    kpa_cache,              \* self._xdiff, _ydiff, _sum, _xpos, _ypos
    kpa_last_reading_time,  \* self._last_reading_time
    kpa_nreadings,          \* successful get_readings() calls of the vendor object
    kpa_ret,                \* observation of the last ThorlabsKPA101 operation
    \* ---- ThorlabsK10CR1 (thorlabs_k10cr1.py)
    k10_open,               \* self.open
    k10_ret,                \* observation of the last ThorlabsK10CR1 operation
    \* ---- hvsController (hvs_controller.py)
    hvs_channels,           \* self.device['channels']: sequence of [name, model]
    hvs_tasks,              \* self._monitors/_voltage_controls: "none" | "started" | "failed"
    hvs_ai,                 \* AI channels of the monitor task, in creation order
    hvs_ao,                 \* AO channels of the control task, in creation order
    hvs_names,              \* self._names
    hvs_voltages,           \* self._voltages (ordered dict: sequence of <<key, value>>)
    hvs_currents,           \* self._currents
    hvs_write_voltages,     \* self._write_voltages
    hvs_last_reading_time,  \* self._last_reading_time
    hvs_connected,          \* self._connected
    hvs_nacq,               \* ReadAnalogF64 calls that returned samples
    hvs_ret,                \* observation of the last hvsController operation
    \* ---- serial drivers (dev_generic.py, srs_ctc100.py, thorlabs_mdt693b.py,
    \*      kjlc_xcg.py, srs_sim922.py)
    ser_port,               \* self.ser / self.connection: "none" | "open" | "closed"
    ser_present,            \* self.device_present
    ser_connected,          \* self.device_connected
    kj_addr,                \* device["DeviceSpecificParams"]["InternalAddress"]
    ser_ret,                \* observation of the last serial driver operation
    \* ---- threads writing through one write_lock
    lk_holder,              \* the thread holding write_lock, 0 if it is free
    lk_pc,                  \* where each thread is in serial_write / write
    lk_res,                 \* how each thread's last write ended
    \* ---- pure helpers: numeric coercion, unit conversion, status decoding
    fn_ret,                 \* the last call of a helper: its argument and result
    \* ---- VISA devices (dev_generic.py: init_visa, visa_write, visa_query)
    vi_cfg,                 \* self.device: VISAIDN, Timeout and CmdOnInit if configured
    vi_resource,            \* self.visa_resource: "none" | "open"
    vi_present,             \* self.device_present
    vi_warning,             \* self.visa_warning
    vi_timeout,             \* self.visa_resource.timeout (ms), None if never set
    vi_ret,                 \* observation of the last VISA operation
    \* ---- a blocking call on a device that never answers
    bq_timeout,             \* device['Timeout'] / device['timeout'] (s), None if not configured
    bq_pc,                  \* "idle" | "reading" (inside a blocking call) | "done"
    bq_wait,                \* seconds the blocking call in progress has waited
    bq_ret,                 \* observation of the operation: its blocking calls and its end
    \* ---- ThorlabsBC (thorlabs_bc.py)
    bc_built,               \* the object: "new" (before __init__) | "built" | "failed"
    bc_session,             \* the SDK session of self.bc2: "none" | "open" | "closed"
    bc_ret,                 \* observation of the last ThorlabsBC operation
    \* ---- threads calling ThorlabsMDT693B.query on one instance
    tx_wlock,               \* the thread holding write_lock, 0 if it is free
    tx_rlock,               \* the thread holding read_lock, 0 if it is free
    tx_pc,                  \* where each thread is in query
    tx_in,                  \* the port's input buffer: the device's replies not yet read
    tx_got,                 \* what each thread's reads returned in its last query
    \* ---- ThorlabsPM100
    pm_flags                \* the flags word of the connected sensor

kpaVars == <<kpa_device_connected, kpa_handle, kpa_cache, kpa_last_reading_time,
             kpa_nreadings, kpa_ret>>
k10Vars == <<k10_open, k10_ret>>
hvsVars == <<hvs_channels, hvs_tasks, hvs_ai, hvs_ao, hvs_names, hvs_voltages,
             hvs_currents, hvs_write_voltages, hvs_last_reading_time,
             hvs_connected, hvs_nacq, hvs_ret>>

serVars == <<ser_port, ser_present, ser_connected, kj_addr, ser_ret>>
lkVars == <<lk_holder, lk_pc, lk_res>>

fnVars == <<fn_ret>>

viVars == <<vi_cfg, vi_resource, vi_present, vi_warning, vi_timeout, vi_ret>>

bqVars == <<bq_timeout, bq_pc, bq_wait, bq_ret>>

bcVars == <<bc_built, bc_session, bc_ret>>

txVars == <<tx_wlock, tx_rlock, tx_pc, tx_in, tx_got>>

pmVars == <<pm_flags>>

\* What an operation of one driver leaves alone: the other drivers.
notKpa == <<k10Vars, hvsVars, serVars, lkVars, fnVars, viVars, bqVars, bcVars, txVars, pmVars>>
notK10 == <<kpaVars, hvsVars, serVars, lkVars, fnVars, viVars, bqVars, bcVars, txVars, pmVars>>
notHvs == <<kpaVars, k10Vars, serVars, lkVars, fnVars, viVars, bqVars, bcVars, txVars, pmVars>>
notSer == <<kpaVars, k10Vars, hvsVars, lkVars, fnVars, viVars, bqVars, bcVars, txVars, pmVars>>
notLk == <<kpaVars, k10Vars, hvsVars, serVars, fnVars, viVars, bqVars, bcVars, txVars, pmVars>>
notFn == <<kpaVars, k10Vars, hvsVars, serVars, lkVars, viVars, bqVars, bcVars, txVars, pmVars>>
notVi == <<kpaVars, k10Vars, hvsVars, serVars, lkVars, fnVars, bqVars, bcVars, txVars, pmVars>>
notBq == <<kpaVars, k10Vars, hvsVars, serVars, lkVars, fnVars, viVars, bcVars, txVars, pmVars>>
notBc == <<kpaVars, k10Vars, hvsVars, serVars, lkVars, fnVars, viVars, bqVars, txVars, pmVars>>
notTx == <<kpaVars, k10Vars, hvsVars, serVars, lkVars, fnVars, viVars, bqVars, bcVars, pmVars>>
notPm == <<kpaVars, k10Vars, hvsVars, serVars, lkVars, fnVars, viVars, bqVars, bcVars, txVars>>

\* Bound of the model clock (ticks).
MaxTime == 5

\* Python None, numpy.nan
None == -1
NaN == 0

\* ------------------------------------------------------------------------
\* ThorlabsKPA101
\* ------------------------------------------------------------------------

\* self._cache_interval = 0.1 (s): two ticks of 50 ms
KpaCacheInterval == 2

KpaProps == {"xdiff", "ydiff", "sum", "xout", "yout"}

\* The cached attribute a property returns (xout -> _xpos, yout -> _ypos).
KpaField(p) ==
    CASE p = "xdiff" -> "xdiff"
      [] p = "ydiff" -> "ydiff"
      [] p = "sum" -> "sum"
      [] p = "xout" -> "xpos"
      [] p = "yout" -> "ypos"

\* A reading of the five signals taken by the k-th get_readings() call.
KpaReadings(k) ==
    [xdiff |-> k, ydiff |-> k, sum |-> k, xpos |-> k, ypos |-> k]

\* What the caller and the vendor object see of an operation: the operation,
\* how it ended (the exception raised, "value" or "none" for a return), the
\* value returned, the time of the call, and whether the vendor object was called.
KpaNoObs ==
    [op |-> "none", kind |-> "none", val |-> NaN, t |-> None, vendor |-> FALSE]

KpaObs(op, kind, val, vendor) ==
    [op |-> op, kind |-> kind, val |-> val, t |-> now, vendor |-> vendor]

KpaInit ==
    /\ kpa_device_connected = FALSE
    /\ kpa_handle = "none"
    /\ kpa_cache = KpaReadings(NaN)
    /\ kpa_last_reading_time = None
    /\ kpa_nreadings = 0
    /\ kpa_ret = KpaNoObs

\* The staleness test of get_readings_cached, with wider comparison (>=).
KpaStaleGe ==
    \/ kpa_last_reading_time = None
    \/ now - kpa_last_reading_time >= KpaCacheInterval

\* The staleness test of get_readings_cached.
KpaStale ==
    \/ kpa_last_reading_time = None
    \/ now - kpa_last_reading_time > KpaCacheInterval

\* A get_readings_cached() that stores the signals and the timestamp one after
\* the other while the vendor's call delivers them: when the call raises, the
\* first signal and the timestamp are already replaced.
GetReadingsCachedTorn(conn, hwok) ==
    IF ~KpaStale
    THEN [raised |-> "none", cache |-> kpa_cache, last |-> kpa_last_reading_time,
          n |-> kpa_nreadings, acq |-> FALSE]
    ELSE IF ~conn
    THEN [raised |-> "DeviceError", cache |-> kpa_cache,
          last |-> kpa_last_reading_time, n |-> kpa_nreadings, acq |-> FALSE]
    ELSE IF ~hwok
    THEN [raised |-> "ThorlabsError",
          cache |-> [kpa_cache EXCEPT !.xdiff = kpa_nreadings + 1],
          last |-> now, n |-> kpa_nreadings + 1, acq |-> TRUE]
    ELSE [raised |-> "none", cache |-> KpaReadings(kpa_nreadings + 1),
          last |-> now, n |-> kpa_nreadings + 1, acq |-> TRUE]

\* get_readings_cached() with the connection flag `conn`; `hwok` is whether
\* the vendor's get_readings() returns (TRUE) or raises ThorlabsError.
\* Result: the exception raised ("none" if it returns), the new cache and
\* timestamp, and whether the vendor object was called.
GetReadingsCached(conn, hwok) ==
    IF ~KpaStale
    THEN [raised |-> "none", cache |-> kpa_cache, last |-> kpa_last_reading_time,
          n |-> kpa_nreadings, acq |-> FALSE]
    ELSE IF ~conn
    THEN [raised |-> "DeviceError", cache |-> kpa_cache,
          last |-> kpa_last_reading_time, n |-> kpa_nreadings, acq |-> FALSE]
    ELSE IF ~hwok
    THEN [raised |-> "ThorlabsError", cache |-> kpa_cache,
          last |-> kpa_last_reading_time, n |-> kpa_nreadings, acq |-> TRUE]
    ELSE [raised |-> "none", cache |-> KpaReadings(kpa_nreadings + 1),
          last |-> now, n |-> kpa_nreadings + 1, acq |-> TRUE]

\* connect(): `ok` is whether KinesisQuadDetector(serial_number) opens.
KpaConnect ==
    /\ dut = "kpa"
    /\ \E ok \in BOOLEAN, hwok \in BOOLEAN :
        IF ~ok
        THEN /\ kpa_ret' = KpaObs("connect", "DeviceError", NaN, TRUE)
             /\ UNCHANGED <<kpa_device_connected, kpa_handle, kpa_cache,
                            kpa_last_reading_time, kpa_nreadings>>
        ELSE LET r == GetReadingsCached(TRUE, hwok) IN
             /\ kpa_handle' = "open"
             /\ kpa_device_connected' = TRUE
             /\ kpa_cache' = r.cache
             /\ kpa_last_reading_time' = r.last
             /\ kpa_nreadings' = r.n
             /\ kpa_ret' = KpaObs("connect", r.raised, NaN, TRUE)
    /\ UNCHANGED <<dut, now, notKpa>>

\* A close() that calls the vendor object's close without looking at
\* device_connected.
KpaCloseUnguarded ==
    /\ dut = "kpa"
    /\ IF kpa_handle # "none"
       THEN /\ kpa_handle' = "closed"
            /\ kpa_device_connected' = FALSE
            /\ kpa_ret' = KpaObs("close", "none", NaN, TRUE)
       ELSE /\ kpa_ret' = KpaObs("close", "AttributeError", NaN, FALSE)
            /\ UNCHANGED <<kpa_handle, kpa_device_connected>>
    /\ UNCHANGED <<dut, now, kpa_cache, kpa_last_reading_time, kpa_nreadings,
                   notKpa>>

\* close()
KpaClose ==
    /\ dut = "kpa"
    /\ IF kpa_device_connected
       THEN /\ kpa_handle' = "closed"
            /\ kpa_device_connected' = FALSE
            /\ kpa_ret' = KpaObs("close", "none", NaN, TRUE)
       ELSE /\ kpa_ret' = KpaObs("close", "none", NaN, FALSE)
            /\ UNCHANGED <<kpa_handle, kpa_device_connected>>
    /\ UNCHANGED <<dut, now, kpa_cache, kpa_last_reading_time, kpa_nreadings,
                   notKpa>>

\* The properties xdiff, ydiff, sum, xout, yout.
KpaProperty(p) ==
    /\ dut = "kpa"
    /\ \E hwok \in BOOLEAN :
        LET r == GetReadingsCached(kpa_device_connected, hwok) IN
        /\ kpa_cache' = r.cache
        /\ kpa_last_reading_time' = r.last
        /\ kpa_nreadings' = r.n
        /\ kpa_ret' = IF r.raised = "none"
                      THEN KpaObs(p, "value", r.cache[KpaField(p)], r.acq)
                      ELSE KpaObs(p, r.raised, NaN, r.acq)
    /\ UNCHANGED <<dut, now, kpa_device_connected, kpa_handle, notKpa>>

\* operation_mode getter (set = FALSE) and setter (set = TRUE): both call the
\* vendor object without check_connection().  On None the attribute access
\* raises AttributeError; a closed vendor object raises or answers.
KpaOperationMode(set) ==
    /\ dut = "kpa"
    /\ \E answer \in BOOLEAN :
        LET op == IF set THEN "set_operation_mode" ELSE "get_operation_mode" IN
        kpa_ret' =
            IF kpa_handle = "none"
            THEN KpaObs(op, "AttributeError", NaN, FALSE)
            ELSE IF answer \/ kpa_handle = "open"
            THEN KpaObs(op, "value", NaN, TRUE)
            ELSE KpaObs(op, "ThorlabsError", NaN, TRUE)
    /\ UNCHANGED <<dut, now, kpa_device_connected, kpa_handle, kpa_cache,
                   kpa_last_reading_time, kpa_nreadings, notKpa>>

\* ------------------------------------------------------------------------
\* ThorlabsK10CR1
\* ------------------------------------------------------------------------

K10NoObs == [op |-> "none", kind |-> "none", vendor |-> FALSE]

K10Init ==
    /\ k10_open = FALSE
    /\ k10_ret = K10NoObs

\* check_connection(): the exception it raises, "none" if it returns.
K10CheckConnection == IF ~k10_open THEN "DeviceError" ELSE "none"

\* connect(): `status` is the return value of ISC_Open.
K10Connect ==
    /\ dut = "k10"
    /\ \E status \in {0, 1} :
        IF status # 0
        THEN /\ k10_ret' = [op |-> "connect", kind |-> "DeviceError", vendor |-> TRUE]
             /\ UNCHANGED k10_open
        ELSE /\ k10_open' = TRUE
             /\ k10_ret' = [op |-> "connect", kind |-> "none", vendor |-> TRUE]
    /\ UNCHANGED <<dut, now, notK10>>

\* close()
K10Close ==
    /\ dut = "k10"
    /\ k10_ret' = [op |-> "close", kind |-> "none",
                   vendor |-> k10_open]
    /\ k10_open' = FALSE
    /\ UNCHANGED <<dut, now, notK10>>

\* get_position() and stop(): check_connection(), then the vendor call.
K10Call(op) ==
    /\ dut = "k10"
    /\ k10_ret' = IF K10CheckConnection # "none"
                  THEN [op |-> op, kind |-> K10CheckConnection, vendor |-> FALSE]
                  ELSE [op |-> op, kind |-> "value",
                        vendor |-> TRUE]
    /\ UNCHANGED <<dut, now, k10_open, notK10>>

\* ------------------------------------------------------------------------
\* hvsController
\* ------------------------------------------------------------------------

\* self._cache_interval = 0.5 (s): two ticks of 250 ms
HvsCacheInterval == 2

KA10P == "Matsusada KA-10P"
J45P == "Matsusada J4-5P"
J45N == "Matsusada J4-5N"

\* Logical channel identifiers: the configured names 1, 2 and one more.
HvsNames == 1..3

\* The device['channels'] configurations exercised.
HvsConfigs ==
    { <<[name |-> 1, model |-> KA10P], [name |-> 2, model |-> J45P]>>,
      <<[name |-> 1, model |-> J45N], [name |-> 2, model |-> KA10P]>> }

\* The models connect() recognises.
HvsModels == {KA10P, J45P, J45N}

\* Most supplies in a configuration.
MaxChannels == 3

\* Every mix of models on up to MaxChannels supplies, named 1, 2, ...
HvsMixes ==
    UNION { { [c \in 1..n |-> [name |-> c, model |-> f[c]]] : f \in [1..n -> HvsModels] } :
            n \in 1..MaxChannels }

\* The hvsController configurations under test: two mixes with every
\* operation, or every mix.
HvsDuts == {"hvs", "hvs_mix"}

\* Values passed to set_voltage (V).
HvsSetValues == {1000}

\* A cached reading: <<acquisition, slot of its result, scaling in 1/10>>,
\* the mean of slot `slot` of acquisition `acq` times the scaling.
HvsNaN == <<0, 0, 0>>

\* ---- Python dict with insertion order, as a sequence of <<key, value>>
DictHas(d, k) == \E i \in 1..Len(d) : d[i][1] = k

DictGet(d, k) == d[CHOOSE i \in 1..Len(d) : d[i][1] = k][2]

\* d[k] = v
DictSet(d, k, v) ==
    IF DictHas(d, k)
    THEN [i \in 1..Len(d) |-> IF d[i][1] = k THEN <<k, v>> ELSE d[i]]
    ELSE Append(d, <<k, v>>)

DictValues(d) == [i \in 1..Len(d) |-> d[i][2]]

DictKeys(d) == [i \in 1..Len(d) |-> d[i][1]]

RECURSIVE ChangeKeyFrom(_, _, _, _, _)
ChangeKeyFrom(key, new_key, dic, i, new_dict) ==
    IF i > Len(dic) THEN new_dict
    ELSE ChangeKeyFrom(key, new_key, dic, i + 1,
            IF dic[i][1] = key
            THEN DictSet(new_dict, new_key, dic[i][2])
            ELSE DictSet(new_dict, dic[i][1], dic[i][2]))

\* _change_key_in_place(key, new_key, dic)
ChangeKeyInPlace(key, new_key, dic) == ChangeKeyFrom(key, new_key, dic, 1, <<>>)

\* What the caller and the DAQ cards see of an operation: the operation and its
\* channel name, how it ended (the exception raised, "value" or "none" for a
\* return), the value returned, the number of ReadAnalogF64 calls it made, the
\* outcome of its DAQ call ("none" without one) and the vector it handed to
\* WriteAnalogF64 (empty without one).
HvsNoObs ==
    [op |-> "none", name |-> 0, kind |-> "none", val |-> HvsNaN, acq |-> 0,
     hw |-> "none", written |-> <<>>]

HvsObs(op, name, kind, val, acq, hw) ==
    [op |-> op, name |-> name, kind |-> kind, val |-> val, acq |-> acq, hw |-> hw,
     written |-> <<>>]

HvsInit ==
    /\ hvs_channels \in (IF dut = "hvs" THEN HvsConfigs
                          ELSE IF dut = "hvs_mix" THEN HvsMixes ELSE {<<>>})
    /\ hvs_tasks = "none"
    /\ hvs_ai = <<>>
    /\ hvs_ao = <<>>
    /\ hvs_names = <<>>
    /\ hvs_voltages = <<>>
    /\ hvs_currents = <<>>
    /\ hvs_write_voltages = <<>>
    /\ hvs_last_reading_time = None
    /\ hvs_connected = FALSE
    /\ hvs_nacq = 0
    /\ hvs_ret = HvsNoObs

\* config_ka10p / config_j45 for the channels i..Len(hvs_channels), on the
\* state st = [ai, ao, names, voltages, currents, write_voltages].  An AI or AO
\* channel is recorded as <<position of the supply in the configuration, signal>>.
RECURSIVE HvsConfigFrom(_, _, _)
HvsConfigFrom(chans, i, st) ==
    IF i > Len(chans) THEN st
    ELSE LET chan == chans[i] IN
         HvsConfigFrom(chans, i + 1,
            IF chan.model = KA10P
            THEN [ai |-> st.ai \o << <<i, "V">>, <<i, "I">> >>,
                  ao |-> Append(st.ao, <<i, "V">>),
                  names |-> Append(st.names, chan.name),
                  voltages |-> DictSet(st.voltages, chan.name, HvsNaN),
                  currents |-> DictSet(st.currents, chan.name, HvsNaN),
                  write_voltages |-> DictSet(st.write_voltages, chan.name, 0)]
            ELSE [ai |-> Append(st.ai, <<i, "V">>),
                  ao |-> Append(st.ao, <<i, "V">>),
                  names |-> Append(st.names, chan.name),
                  voltages |-> DictSet(st.voltages, chan.name, HvsNaN),
                  currents |-> st.currents,
                  write_voltages |-> DictSet(st.write_voltages, chan.name, 0)])

HvsEmpty ==
    [ai |-> <<>>, ao |-> <<>>, names |-> <<>>, voltages |-> <<>>,
     currents |-> <<>>, write_voltages |-> <<>>]

\* connect(): `ok` is whether the DAQ cards can be accessed; if not, `done` is
\* the number of channels configured before DevCannotBeAccessedError is raised.
HvsConnect ==
    /\ dut \in HvsDuts
    /\ hvs_tasks = "none"
    /\ \E ok \in BOOLEAN, done \in 0..Len(hvs_channels) :
        LET st == HvsConfigFrom(
                    IF ok THEN hvs_channels ELSE SubSeq(hvs_channels, 1, done),
                    1, HvsEmpty) IN
        /\ hvs_tasks' = IF ok THEN "started" ELSE "failed"
        /\ hvs_ai' = st.ai
        /\ hvs_ao' = st.ao
        /\ hvs_names' = st.names
        /\ hvs_voltages' = st.voltages
        /\ hvs_currents' = st.currents
        /\ hvs_write_voltages' = st.write_voltages
        /\ hvs_connected' = ok
        /\ hvs_ret' = IF ok
                      THEN HvsObs("connect", 0, "none", HvsNaN, 0, "ok")
                      ELSE HvsObs("connect", 0, "DeviceError", HvsNaN, 0,
                                  "DevCannotBeAccessedError")
    /\ UNCHANGED <<dut, now, hvs_channels, hvs_last_reading_time, hvs_nacq,
                   notHvs>>

\* set_name(channel_name, new_name): the exception raised, "none" if it returns.
HvsSetNameRaises(channel_name, new_name) ==
    IF \E i \in 1..Len(hvs_names) : hvs_names[i] = new_name THEN "DeviceError"
    ELSE IF ~\E i \in 1..Len(hvs_names) : hvs_names[i] = channel_name THEN "ValueError"
    ELSE "none"

\* set_name(channel_name, new_name)
HvsSetName(channel_name, new_name) ==
    /\ dut \in HvsDuts
    /\ hvs_tasks = "started"
    /\ LET raised == HvsSetNameRaises(channel_name, new_name) IN
       /\ hvs_ret' = HvsObs("set_name", channel_name, raised, HvsNaN, 0, "none")
       /\ IF raised = "none"
          THEN /\ hvs_channels' =
                    [i \in 1..Len(hvs_channels) |->
                        IF hvs_channels[i].name = channel_name
                        THEN [hvs_channels[i] EXCEPT !.name = new_name]
                        ELSE hvs_channels[i]]
               /\ hvs_names' =
                    [hvs_names EXCEPT
                        ![CHOOSE i \in 1..Len(hvs_names) :
                            /\ hvs_names[i] = channel_name
                            /\ \A j \in 1..(i - 1) : hvs_names[j] # channel_name]
                        = new_name]
               /\ hvs_voltages' = ChangeKeyInPlace(channel_name, new_name, hvs_voltages)
               /\ hvs_write_voltages' =
                    ChangeKeyInPlace(channel_name, new_name, hvs_write_voltages)
               /\ hvs_currents' =
                    IF DictHas(hvs_currents, channel_name)
                    THEN ChangeKeyInPlace(channel_name, new_name, hvs_currents)
                    ELSE hvs_currents
          ELSE UNCHANGED <<hvs_channels, hvs_names, hvs_voltages, hvs_write_voltages,
                           hvs_currents>>
    /\ UNCHANGED <<dut, now, hvs_tasks, hvs_ai, hvs_ao, hvs_last_reading_time,
                   hvs_connected, hvs_nacq, notHvs>>

\* The staleness test of read_voltage / read_current.
HvsStale ==
    \/ hvs_last_reading_time = None
    \/ now - hvs_last_reading_time > HvsCacheInterval

\* Outcomes of ReadAnalogF64 in _measure_voltage: samples returned, a
\* DevCannotBeAccessedError, another DAQError, or fewer samples than requested.
HvsReadOutcomes == {"ok", "DevCannotBeAccessedError", "DAQError", "mismatch"}

\* The fan-out of update_readings with one acquisition per channel.
RECURSIVE HvsFanOutPerChannel(_, _, _, _)
HvsFanOutPerChannel(acq, c, i, st) ==
    IF c > Len(hvs_channels) THEN st
    ELSE LET chan == hvs_channels[c] IN
         IF chan.model = KA10P
         THEN HvsFanOutPerChannel(acq + 1, c + 1, i + 2,
                [voltages |-> DictSet(st.voltages, chan.name, <<acq, i, 10000>>),
                 currents |-> DictSet(st.currents, chan.name, <<acq, i + 1, 1>>)])
         ELSE HvsFanOutPerChannel(acq + 1, c + 1, i + 1,
                [voltages |-> DictSet(st.voltages, chan.name, <<acq, i, 10000>>),
                 currents |-> st.currents])

\* The fan-out of update_readings taking a KA-10P's current from the first of
\* its two slots and its voltage from the second.
RECURSIVE HvsFanOutCurrentFirst(_, _, _, _)
HvsFanOutCurrentFirst(acq, c, i, st) ==
    IF c > Len(hvs_channels) THEN st
    ELSE LET chan == hvs_channels[c] IN
         IF chan.model = KA10P
         THEN HvsFanOutCurrentFirst(acq, c + 1, i + 2,
                [voltages |-> DictSet(st.voltages, chan.name, <<acq, i + 1, 10000>>),
                 currents |-> DictSet(st.currents, chan.name, <<acq, i, 1>>)])
         ELSE HvsFanOutCurrentFirst(acq, c + 1, i + 1,
                [voltages |-> DictSet(st.voltages, chan.name, <<acq, i, 10000>>),
                 currents |-> st.currents])

\* The fan-out loop of update_readings over device['channels'] from channel c,
\* with i the next slot of the result `values` of acquisition acq (one-based).
RECURSIVE HvsFanOut(_, _, _, _)
HvsFanOut(acq, c, i, st) ==
    IF c > Len(hvs_channels) THEN st
    ELSE LET chan == hvs_channels[c] IN
         IF chan.model = KA10P
         THEN HvsFanOut(acq, c + 1, i + 2,
                [voltages |-> DictSet(st.voltages, chan.name, <<acq, i, 10000>>),
                 currents |-> DictSet(st.currents, chan.name, <<acq, i + 1, 1>>)])
         ELSE HvsFanOut(acq, c + 1, i + 1,
                [voltages |-> DictSet(st.voltages, chan.name, <<acq, i, 10000>>),
                 currents |-> st.currents])

\* buf_size of _measure_voltage: the number of slots one acquisition fills.
HvsBufSize == Len(hvs_currents) + Len(hvs_voltages)

\* The refresh step of read_voltage / read_current: update_readings() (with
\* _measure_voltage) if `stale`, nothing otherwise.  `hw` is the outcome of
\* ReadAnalogF64.  Result: the exception raised ("none" if none), the new
\* caches, timestamp and flag, and the number of ReadAnalogF64 calls made.
UpdateReadings(stale, hw) ==
    IF ~stale
    THEN [raised |-> "none", voltages |-> hvs_voltages, currents |-> hvs_currents,
          last |-> hvs_last_reading_time, nacq |-> hvs_nacq,
          connected |-> hvs_connected, acq |-> 0]
    ELSE IF hw # "ok"
    THEN [raised |-> "DeviceError", voltages |-> hvs_voltages,
          currents |-> hvs_currents, last |-> now, nacq |-> hvs_nacq,
          connected |-> IF hw = "DevCannotBeAccessedError" THEN FALSE
                        ELSE hvs_connected,
          acq |-> 1]
    ELSE LET st == HvsFanOut(hvs_nacq + 1, 1, 1,
                        [voltages |-> hvs_voltages, currents |-> hvs_currents]) IN
         [raised |-> "none", voltages |-> st.voltages, currents |-> st.currents,
          last |-> now, nacq |-> hvs_nacq + 1, connected |-> hvs_connected,
          acq |-> 1]

\* read_voltage(channel_name) (what = "voltage") and read_current(channel_name)
\* (what = "current").
HvsRead(what, channel_name) ==
    /\ dut \in HvsDuts
    /\ hvs_tasks = "started"
    /\ \E hw \in HvsReadOutcomes :
        LET r == UpdateReadings(HvsStale, hw)
            d == IF what = "voltage" THEN r.voltages ELSE r.currents
            op == IF what = "voltage" THEN "read_voltage" ELSE "read_current"
        IN
        /\ hvs_voltages' = r.voltages
        /\ hvs_currents' = r.currents
        /\ hvs_last_reading_time' = r.last
        /\ hvs_nacq' = r.nacq
        /\ hvs_connected' = r.connected
        /\ hvs_ret' =
            IF r.raised # "none"
            THEN HvsObs(op, channel_name, r.raised, HvsNaN, r.acq, hw)
            ELSE IF ~DictHas(d, channel_name)
            THEN HvsObs(op, channel_name, "KeyError", HvsNaN, r.acq,
                        IF r.acq = 1 THEN hw ELSE "none")
            ELSE HvsObs(op, channel_name, "value", DictGet(d, channel_name), r.acq,
                        IF r.acq = 1 THEN hw ELSE "none")
    /\ UNCHANGED <<dut, now, hvs_channels, hvs_tasks, hvs_ai, hvs_ao, hvs_names,
                   hvs_write_voltages, notHvs>>

\* The scaling set_voltage finds for channel_name, in 1/10000.
HvsScaling(channel_name) ==
    IF \E i \in 1..Len(hvs_channels) :
            hvs_channels[i].name = channel_name /\ hvs_channels[i].model = KA10P
    THEN 10
    ELSE IF \E i \in 1..Len(hvs_channels) :
            hvs_channels[i].name = channel_name
            /\ hvs_channels[i].model \in {J45P, J45N}
    THEN 18
    ELSE 0

\* Outcomes of WriteAnalogF64 in _update_voltages: written, a
\* DevCannotBeAccessedError, another DAQError, or no sample written.
HvsWriteOutcomes == {"ok", "DevCannotBeAccessedError", "DAQError", "nothing"}

\* set_voltage(channel_name, value), with _update_voltages()
HvsSetVoltage(channel_name, value) ==
    /\ dut \in HvsDuts
    /\ hvs_tasks = "started"
    /\ \E hw \in HvsWriteOutcomes :
        /\ hvs_write_voltages' =
            DictSet(hvs_write_voltages, channel_name, value * HvsScaling(channel_name))
        /\ hvs_connected' = IF hw = "DevCannotBeAccessedError" THEN FALSE
                            ELSE hvs_connected
        /\ hvs_ret' = [HvsObs("set_voltage", channel_name,
                              IF hw = "ok" THEN "none" ELSE "DeviceError",
                              HvsNaN, 0, hw)
                       EXCEPT !.written = DictValues(hvs_write_voltages')]
    /\ UNCHANGED <<dut, now, hvs_channels, hvs_tasks, hvs_ai, hvs_ao, hvs_names,
                   hvs_voltages, hvs_currents, hvs_last_reading_time, hvs_nacq,
                   notHvs>>

NextHvs ==
    \/ HvsConnect
    \/ \E old \in HvsNames, new \in HvsNames : HvsSetName(old, new)
    \/ \E what \in {"voltage", "current"}, n \in HvsNames : HvsRead(what, n)
    \/ \E n \in HvsNames, v \in HvsSetValues : HvsSetVoltage(n, v)

\* ------------------------------------------------------------------------
\* Serial drivers: Device (dev_generic.py) with SRSCTC100, ThorlabsMDT693B,
\* kjlc_xcg Device and srsSim922
\* ------------------------------------------------------------------------

\* Text and bytes are sequences of one-character strings; "CR" and "LF" are
\* carriage return and line feed, "0xFF" is a byte outside ASCII.  Encoding
\* ASCII text gives one byte per character.

\* Longest numeric payload of a response.
MaxPayload == 3

RECURSIVE SeqsUpTo(_, _)
SeqsUpTo(S, n) ==
    IF n = 0 THEN {<<>>}
    ELSE LET shorter == SeqsUpTo(S, n - 1) IN
         shorter \cup {Append(x, c) : x \in {y \in shorter : Len(y) = n - 1}, c \in S}

Whitespace == {" ", "CR", "LF"}

\* str.startswith / str.endswith
StartsWith(s, p) == Len(s) >= Len(p) /\ SubSeq(s, 1, Len(p)) = p

EndsWith(s, p) == Len(s) >= Len(p) /\ SubSeq(s, Len(s) - Len(p) + 1, Len(s)) = p

\* str.rstrip() / str.strip(): without trailing (and leading) whitespace
RECURSIVE RStrip(_)
RStrip(s) ==
    IF s # <<>> /\ s[Len(s)] \in Whitespace THEN RStrip(SubSeq(s, 1, Len(s) - 1)) ELSE s

RECURSIVE LStrip(_)
LStrip(s) == IF s # <<>> /\ s[1] \in Whitespace THEN LStrip(Tail(s)) ELSE s

\* bytes.decode("ASCII") succeeds
IsAscii(b) == \A i \in 1..Len(b) : b[i] # "0xFF"

DigitVal(c) == CASE c = "0" -> 0 [] c = "1" -> 1 [] c = "2" -> 2

Digits == {"0", "1", "2"}

RECURSIVE DigitsValue(_)
DigitsValue(s) ==
    IF s = <<>> THEN 0
    ELSE 10 * DigitsValue(SubSeq(s, 1, Len(s) - 1)) + DigitVal(s[Len(s)])

RECURSIVE Pow10(_)
Pow10(k) == IF k = 0 THEN 1 ELSE 10 * Pow10(k - 1)

\* float(text) for decimal text: <<numerator, denominator>> of the value, or
\* <<>> where float raises ValueError.
ParseFloat(text) ==
    LET t == LStrip(RStrip(text))
        dots == {i \in 1..Len(t) : t[i] = "."}
        digs == SelectSeq(t, LAMBDA c : c \in Digits)
    IN
    IF \/ \E i \in 1..Len(t) : t[i] \notin Digits \cup {"."}
       \/ Cardinality(dots) > 1
       \/ digs = <<>>
    THEN <<>>
    ELSE <<DigitsValue(digs),
           IF dots = {}
           THEN 1
           ELSE Pow10(Len(t) - (CHOOSE i \in dots : TRUE))>>

\* What the caller and the port see of an operation: the operation, how it
\* ended (the exception raised, "value" or "none" for a return), the text and
\* the number returned, the bytes handed to the port's write, the count the
\* port reported (None without a report), the number of reads made on the port,
\* the response read and the response the error carries.
SerNoObs ==
    [op |-> "none", kind |-> "none", text |-> <<>>, num |-> <<>>, sent |-> <<>>,
     n |-> None, nreads |-> 0, rsp |-> <<>>, err |-> <<>>]

SerInit ==
    /\ ser_port = (IF dut \in {"kjlc", "sim"} THEN "open" ELSE "none")
    /\ ser_present = FALSE
    /\ ser_connected = FALSE
    /\ kj_addr \in (IF dut = "kjlc" THEN {<<"1">>, <<"0", "1">>} ELSE {<<>>})
    /\ ser_ret = SerNoObs

\* ---- the port (pyserial): what a write can do.  On an open port it reports a
\* count between 0 and the number of bytes, or raises SerialException.
WriteReports(bytes) == 0..Len(bytes)

\* The port's answers to an operation that writes bytes and then reads from
\* the set S: whether the write raises, the count it reports otherwise, and
\* what the read returns if the operation gets that far.
PortAnswers(bytes, S) ==
    {<<TRUE, 0, <<>> >>}
    \cup {<<FALSE, n, <<>> >> : n \in WriteReports(bytes) \ {Len(bytes)}}
    \cup {<<FALSE, Len(bytes), r>> : r \in IF ser_port = "open" THEN S ELSE {<<>>}}

\* The exception of calling write on self.ser, "none" if the port reports a count.
PortWriteRaises(port, ioerr) ==
    IF port = "none" THEN "AttributeError"
    ELSE IF port = "closed" \/ ioerr THEN "SerialException"
    ELSE "none"

\* serial_write that fails only when the port wrote nothing.
SerialWriteUnlessNothing(port, command, eol, n, ioerr) ==
    LET query == command \o eol IN
    IF PortWriteRaises(port, ioerr) # "none"
    THEN [raised |-> PortWriteRaises(port, ioerr), sent |-> query, n |-> None]
    ELSE [raised |-> IF n = 0 THEN "DeviceError" ELSE "none", sent |-> query, n |-> n]

\* Device.serial_write(command, encoding='ASCII', eol): n is the count the port
\* reports, ioerr whether its write raises.
SerialWrite(port, command, eol, n, ioerr) ==
    LET query == command \o eol IN
    IF PortWriteRaises(port, ioerr) # "none"
    THEN [raised |-> PortWriteRaises(port, ioerr), sent |-> query, n |-> None]
    ELSE [raised |-> IF n # Len(query) THEN "DeviceError" ELSE "none",
          sent |-> query, n |-> n]

\* ThorlabsMDT693B.write(command)
MdtWrite(port, command, n, ioerr) ==
    LET query == command \o <<"LF">> IN
    IF PortWriteRaises(port, ioerr) # "none"
    THEN [raised |-> PortWriteRaises(port, ioerr), sent |-> query, n |-> None]
    ELSE [raised |-> IF n # Len(query) THEN "DeviceError" ELSE "none",
          sent |-> query, n |-> n]

\* Device.serial_connect() / ThorlabsMDT693B.connect(): `ok` is whether
\* serial.Serial(...) opens the port.
SerConnect ==
    /\ dut \in {"ctc", "mdt"}
    /\ \E ok \in BOOLEAN :
        IF ok
        THEN /\ ser_port' = "open"
             /\ ser_present' = TRUE
             /\ ser_connected' = TRUE
             /\ ser_ret' = [SerNoObs EXCEPT !.op = "connect"]
        ELSE /\ ser_ret' = [SerNoObs EXCEPT !.op = "connect", !.kind = "DeviceError"]
             /\ UNCHANGED <<ser_port, ser_present, ser_connected>>
    /\ UNCHANGED <<dut, now, kj_addr, notSer>>

\* A close that closes the port and leaves device_connected as it was.
SerCloseKeepsConnected ==
    /\ dut \in {"ctc", "mdt"}
    /\ ser_port' = IF ser_port # "none" THEN "closed" ELSE ser_port
    /\ ser_ret' = [SerNoObs EXCEPT !.op = "close"]
    /\ UNCHANGED <<dut, now, ser_present, ser_connected, kj_addr, notSer>>

\* Device.serial_close() / ThorlabsMDT693B.close()
SerClose ==
    /\ dut \in {"ctc", "mdt"}
    /\ ser_port' = IF ser_port # "none" THEN "closed" ELSE ser_port
    /\ ser_connected' = FALSE
    /\ ser_ret' = [SerNoObs EXCEPT !.op = "close"]
    /\ UNCHANGED <<dut, now, ser_present, kj_addr, notSer>>

\* ---- SRSCTC100

CtcNames == {<<"T">>}

\* What readline() can return to SRSCTC100.query.
CtcResponses ==
    {x \o t : x \in SeqsUpTo({"1", "."}, MaxPayload),
              t \in {<<>>, <<"CR">>, <<"CR", "LF">>, <<"0xFF", "CR", "LF">>}}

\* SRSCTC100.query(command) after the write: the checks of the response.
CtcCheckResponse(rsp) ==
    IF ~IsAscii(rsp) THEN [raised |-> "DeviceError", text |-> <<>>, err |-> rsp]
    ELSE IF rsp = <<>> THEN [raised |-> "DeviceError", text |-> <<>>, err |-> <<>>]
    ELSE IF ~EndsWith(rsp, <<"CR", "LF">>)
    THEN [raised |-> "DeviceError", text |-> <<>>, err |-> <<>>]
    ELSE [raised |-> "none", text |-> RStrip(rsp), err |-> <<>>]

\* SRSCTC100.query(command)
CtcQuery(command, n, ioerr, rsp) ==
    LET w == SerialWrite(ser_port, command, <<"LF">>, n, ioerr) IN
    IF w.raised # "none"
    THEN [SerNoObs EXCEPT !.kind = w.raised, !.sent = w.sent, !.n = w.n]
    ELSE LET c == CtcCheckResponse(rsp) IN
         [SerNoObs EXCEPT !.kind = IF c.raised = "none" THEN "value" ELSE c.raised,
                          !.text = c.text, !.sent = w.sent, !.n = w.n, !.nreads = 1,
                          !.rsp = rsp, !.err = c.err]

\* float(rsp) on the result q of a query: the number, or ValueError.
FloatOf(q, text) ==
    IF q.kind # "value" THEN q
    ELSE IF ParseFloat(text) = <<>> THEN [q EXCEPT !.kind = "ValueError", !.text = <<>>]
    ELSE [q EXCEPT !.num = ParseFloat(text), !.text = <<>>]

\* SRSCTC100.write / query / read_temperature
CtcOp ==
    /\ dut = "ctc"
    /\ \E name \in CtcNames, op \in {"write", "query", "read_temperature"} :
        LET command == name \o <<"?">> IN
        \E a \in PortAnswers(command \o <<"LF">>,
                              IF op = "write" THEN {<<>>} ELSE CtcResponses) :
            LET w == SerialWrite(ser_port, command, <<"LF">>, a[2], a[1])
                q == CtcQuery(command, a[2], a[1], a[3])
            IN
            ser_ret' =
                CASE op = "write" ->
                        [SerNoObs EXCEPT !.op = op, !.kind = w.raised,
                                         !.sent = w.sent, !.n = w.n]
                  [] op = "query" -> [q EXCEPT !.op = op]
                  [] op = "read_temperature" -> [FloatOf(q, q.text) EXCEPT !.op = op]
    /\ UNCHANGED <<dut, now, ser_port, ser_present, ser_connected, kj_addr, notSer>>

\* ---- kjlc_xcg Device

KjlcCommands == {<<"R", "D">>}

\* What readline() can return to the pressure gauge driver with address addr.
KjlcResponses(addr) ==
    {p \o x \o t :
        p \in {<<>>, <<"?">>, <<"*">> \o addr \o <<" ">>, <<"*">> \o addr,
               <<"*", "2", " ">>},
        x \in SeqsUpTo({"1", "."}, MaxPayload),
        t \in {<<>>, <<"CR">>, <<"0xFF", "CR">>}}

\* Device.query after the write, without the check of the acknowledgement.
KjlcCheckNoAck(addr, rsp) ==
    IF ~IsAscii(rsp) THEN [raised |-> "DeviceError", text |-> <<>>, err |-> rsp]
    ELSE IF rsp = <<>> THEN [raised |-> "DeviceError", text |-> <<>>, err |-> <<>>]
    ELSE IF StartsWith(rsp, <<"?">>)
    THEN [raised |-> "DeviceError", text |-> <<>>, err |-> rsp]
    ELSE [raised |-> "none", text |-> SubSeq(rsp, 5, Len(rsp)), err |-> <<>>]

\* Device.query(command) after the write: the checks of the response rsp, and
\* the text rsp[4:] returned.
KjlcCheckResponse(addr, rsp) ==
    IF ~IsAscii(rsp) THEN [raised |-> "DeviceError", text |-> <<>>, err |-> rsp]
    ELSE IF rsp = <<>> THEN [raised |-> "DeviceError", text |-> <<>>, err |-> <<>>]
    ELSE IF StartsWith(rsp, <<"?">>)
    THEN [raised |-> "DeviceError", text |-> <<>>, err |-> rsp]
    ELSE IF ~StartsWith(rsp, <<"*">> \o addr \o <<" ">>)
    THEN [raised |-> "DeviceError", text |-> <<>>, err |-> rsp]
    ELSE [raised |-> "none", text |-> SubSeq(rsp, 5, Len(rsp)), err |-> <<>>]

\* Device.query that reads a second time when the first read returned nothing.
KjlcQueryRereads(command, n, ioerr, rsp) ==
    LET query == <<"#">> \o kj_addr \o command \o <<"CR">> IN
    IF PortWriteRaises(ser_port, ioerr) # "none"
    THEN [SerNoObs EXCEPT !.kind = PortWriteRaises(ser_port, ioerr), !.sent = query]
    ELSE IF n # Len(query)
    THEN [SerNoObs EXCEPT !.kind = "DeviceError", !.sent = query, !.n = n]
    ELSE LET c == KjlcCheckResponse(kj_addr, rsp) IN
         [SerNoObs EXCEPT !.kind = IF c.raised = "none" THEN "value" ELSE c.raised,
                          !.text = c.text, !.sent = query, !.n = n,
                          !.nreads = IF rsp = <<>> THEN 2 ELSE 1,
                          !.rsp = rsp, !.err = c.err]

\* Device.query(command): n is the count the port reports for the write,
\* ioerr whether the write raises, rsp what readline() returns.
KjlcQuery(command, n, ioerr, rsp) ==
    LET query == <<"#">> \o kj_addr \o command \o <<"CR">> IN
    IF PortWriteRaises(ser_port, ioerr) # "none"
    THEN [SerNoObs EXCEPT !.kind = PortWriteRaises(ser_port, ioerr), !.sent = query]
    ELSE IF n # Len(query)
    THEN [SerNoObs EXCEPT !.kind = "DeviceError", !.sent = query, !.n = n]
    ELSE LET c == KjlcCheckResponse(kj_addr, rsp) IN
         [SerNoObs EXCEPT !.kind = IF c.raised = "none" THEN "value" ELSE c.raised,
                          !.text = c.text, !.sent = query, !.n = n, !.nreads = 1,
                          !.rsp = rsp, !.err = c.err]

\* Device.query(command) / read_pressure()
KjlcOp ==
    /\ dut = "kjlc"
    /\ \E command \in KjlcCommands, op \in {"query", "read_pressure"} :
        \E a \in PortAnswers(<<"#">> \o kj_addr \o command \o <<"CR">>,
                              KjlcResponses(kj_addr)) :
            LET q == KjlcQuery(command, a[2], a[1], a[3]) IN
            ser_ret' = IF op = "query" THEN [q EXCEPT !.op = op]
                       ELSE [FloatOf(q, q.text) EXCEPT !.op = op]
    /\ UNCHANGED <<dut, now, ser_port, ser_present, ser_connected, kj_addr, notSer>>

\* ---- srsSim922

SimChannels == {<<"1">>}

\* What readline() can return to srsSim922.query.
SimResponses ==
    {x \o t : x \in SeqsUpTo({"1", "."}, MaxPayload),
              t \in {<<>>, <<"CR", "LF">>, <<"0xFF", "CR", "LF">>}}

\* srsSim922.query(command)
SimQuery(command, n, ioerr, rsp) ==
    LET query == command \o <<"LF">> IN
    IF PortWriteRaises(ser_port, ioerr) # "none"
    THEN [SerNoObs EXCEPT !.kind = PortWriteRaises(ser_port, ioerr), !.sent = query]
    ELSE IF n # Len(query)
    THEN [SerNoObs EXCEPT !.kind = "DeviceError", !.sent = query, !.n = n]
    ELSE IF ~IsAscii(rsp)
    THEN [SerNoObs EXCEPT !.kind = "DeviceError", !.sent = query, !.n = n,
                          !.nreads = 1, !.rsp = rsp, !.err = rsp]
    ELSE IF rsp = <<>>
    THEN [SerNoObs EXCEPT !.kind = "DeviceError", !.sent = query, !.n = n,
                          !.nreads = 1, !.rsp = rsp]
    ELSE [SerNoObs EXCEPT !.kind = "value", !.text = rsp, !.sent = query, !.n = n,
                          !.nreads = 1, !.rsp = rsp]

\* srsSim922.query(command) / read_temperature(channel)
SimOp ==
    /\ dut = "sim"
    /\ \E channel \in SimChannels, op \in {"query", "read_temperature"} :
        LET command == <<"T", "V", "A", "L", "?", " ">> \o channel IN
        \E a \in PortAnswers(command \o <<"LF">>, SimResponses) :
            LET q == SimQuery(command, a[2], a[1], a[3]) IN
            ser_ret' = IF op = "query" THEN [q EXCEPT !.op = op]
                       ELSE [FloatOf(q, q.text) EXCEPT !.op = op]
    /\ UNCHANGED <<dut, now, ser_port, ser_present, ser_connected, kj_addr, notSer>>

\* ---- ThorlabsMDT693B

MdtAxes == {"x", "w"}

MdtVoltages == {-1, 0, 2}

\* What read(1) can return: nothing (timeout), the prompt, another byte.
MdtAcks == {<<>>, <<">">>, <<"!">>, <<"0xFF">>}

\* f'{voltage}' for the integers above
FormatVoltage(v) == CASE v = 0 -> <<"0">> [] v = 1 -> <<"1">> [] v = 2 -> <<"2">>

\* What read_until(b'\r') can return: a bracketed number ended by CR, or less
\* of it.
MdtReadUntil ==
    {o \o x \o c \o t : o \in {<<>>, <<"[">>}, x \in SeqsUpTo({"1", "."}, MaxPayload - 1),
                        c \in {<<>>, <<"]">>}, t \in {<<>>, <<"CR">>}}


\* What the reads of a query can return: the response and the acknowledgement,
\* or SerialException.
MdtResponses ==
    {<<r, k>> : r \in MdtReadUntil, k \in MdtAcks} \cup {<<<<"SerialException">>, <<>> >>}

\* The end of ThorlabsMDT693B.query / send_command: decoding and checking ack.
MdtCheckAck(ack) ==
    IF ~IsAscii(ack) THEN "UnicodeDecodeError"
    ELSE IF ack # <<">">> THEN "DeviceError"
    ELSE "none"

\* ThorlabsMDT693B.query(command): rerr is whether a read on the port raises.
MdtQuery(command, n, ioerr, rerr, response, ack) ==
    LET w == MdtWrite(ser_port, command, n, ioerr) IN
    IF w.raised # "none"
    THEN [SerNoObs EXCEPT !.kind = w.raised, !.sent = w.sent, !.n = w.n]
    ELSE IF rerr
    THEN [SerNoObs EXCEPT !.kind = "SerialException", !.sent = w.sent, !.n = w.n,
                          !.nreads = 1]
    ELSE [SerNoObs EXCEPT !.kind = IF MdtCheckAck(ack) = "none" THEN "value"
                                   ELSE MdtCheckAck(ack),
                          !.text = IF MdtCheckAck(ack) = "none" THEN RStrip(response)
                                   ELSE <<>>,
                          !.sent = w.sent, !.n = w.n, !.nreads = 2, !.rsp = response]

\* ThorlabsMDT693B.send_command(command)
MdtSendCommand(command, n, ioerr, rerr, ack) ==
    LET w == MdtWrite(ser_port, command, n, ioerr) IN
    IF w.raised # "none"
    THEN [SerNoObs EXCEPT !.kind = w.raised, !.sent = w.sent, !.n = w.n]
    ELSE IF rerr
    THEN [SerNoObs EXCEPT !.kind = "SerialException", !.sent = w.sent, !.n = w.n,
                          !.nreads = 1]
    ELSE [SerNoObs EXCEPT !.kind = MdtCheckAck(ack), !.sent = w.sent, !.n = w.n,
                          !.nreads = 1]

\* ThorlabsMDT693B._check_axis(axis) raises
MdtCheckAxis(axis) == axis \notin {"x", "y", "z"}

\* ThorlabsMDT693B.read_voltage(axis)
MdtReadVoltage(axis, n, ioerr, rerr, response, ack) ==
    IF MdtCheckAxis(axis) THEN [SerNoObs EXCEPT !.kind = "DeviceError"]
    ELSE
    LET q == MdtQuery(<<axis, "v", "o", "l", "t", "a", "g", "e", "?">>,
                      n, ioerr, rerr, response, ack)
    IN
    IF q.kind = "SerialException" THEN [q EXCEPT !.kind = "DeviceError"]
    ELSE IF q.kind # "value" THEN q
    ELSE LET v == ParseFloat(SubSeq(q.text, 2, Len(q.text) - 1)) IN
         IF v = <<>>
         THEN [q EXCEPT !.kind = "DeviceError", !.text = <<>>, !.err = q.text]
         ELSE [q EXCEPT !.num = v, !.text = <<>>]

\* A set_voltage that does not check the axis.
MdtSetVoltageAnyAxis(axis, voltage, n, ioerr, rerr, ack) ==
    IF voltage < 0 THEN [SerNoObs EXCEPT !.kind = "DeviceError"]
    ELSE
    LET q == MdtSendCommand(<<axis, "v", "o", "l", "t", "a", "g", "e", "=">>
                                \o FormatVoltage(voltage), n, ioerr, rerr, ack)
    IN
    IF q.kind = "SerialException" THEN [q EXCEPT !.kind = "DeviceError"] ELSE q

\* ThorlabsMDT693B.set_voltage(axis, voltage)
MdtSetVoltage(axis, voltage, n, ioerr, rerr, ack) ==
    IF MdtCheckAxis(axis) \/ voltage < 0 THEN [SerNoObs EXCEPT !.kind = "DeviceError"]
    ELSE
    LET q == MdtSendCommand(<<axis, "v", "o", "l", "t", "a", "g", "e", "=">>
                                \o FormatVoltage(voltage), n, ioerr, rerr, ack)
    IN
    IF q.kind = "SerialException" THEN [q EXCEPT !.kind = "DeviceError"] ELSE q

\* ThorlabsMDT693B.write / read_voltage / set_voltage
MdtOp ==
    /\ dut = "mdt"
    /\ \E axis \in MdtAxes :
        LET command == <<axis, "v", "o", "l", "t", "a", "g", "e", "?">> IN
        \/ \E a \in PortAnswers(command \o <<"LF">>, {<<>>}) :
            LET w == MdtWrite(ser_port, command, a[2], a[1]) IN
            ser_ret' = [SerNoObs EXCEPT !.op = "write", !.kind = w.raised,
                                        !.sent = w.sent, !.n = w.n]
        \/ \E a \in PortAnswers(command \o <<"LF">>, MdtResponses) :
            LET rerr == a[3] # <<>> /\ a[3][1] = <<"SerialException">>
                response == IF a[3] = <<>> \/ rerr THEN <<>> ELSE a[3][1]
                ack == IF a[3] = <<>> \/ rerr THEN <<>> ELSE a[3][2]
            IN
            ser_ret' = [MdtReadVoltage(axis, a[2], a[1], rerr, response, ack)
                            EXCEPT !.op = "read_voltage"]
        \/ \E voltage \in MdtVoltages :
            \E a \in PortAnswers(<<axis, "v", "o", "l", "t", "a", "g", "e", "=">>
                                    \o FormatVoltage(IF voltage < 0 THEN 0 ELSE voltage)
                                    \o <<"LF">>,
                                  {<<k>> : k \in MdtAcks} \cup {<<<<"SerialException">>>>}) :
                LET rerr == a[3] = <<<<"SerialException">>>>
                    ack == IF a[3] = <<>> \/ rerr THEN <<>> ELSE a[3][1]
                IN
                ser_ret' = [MdtSetVoltage(axis, voltage, a[2], a[1], rerr, ack)
                                EXCEPT !.op = "set_voltage"]
    /\ UNCHANGED <<dut, now, ser_port, ser_present, ser_connected, kj_addr, notSer>>

\* ------------------------------------------------------------------------
\* Threads writing through one write_lock: Device.serial_write
\* (dev_generic.py) and ThorlabsMDT693B.write
\* ------------------------------------------------------------------------

NThreads == 3

Threads == 1..NThreads

LkInit ==
    /\ lk_holder = 0
    /\ lk_pc = [t \in Threads |-> "idle"]
    /\ lk_res = [t \in Threads |-> "none"]

\* A with-block that keeps the lock when its body raises.
LockKeptOnRaise(t, res) == IF res = "SerialException" THEN t ELSE 0

\* The holder of write_lock after thread t leaves `with write_lock:`, the port's
\* write having ended as res: the lock is free.
LockAfterExit(t, res) == 0

\* Thread t calls serial_write / write and reaches `with write_lock:`.
LkCall(t) ==
    /\ lk_pc[t] = "idle"
    /\ lk_pc' = [lk_pc EXCEPT ![t] = "waiting"]
    /\ lk_res' = [lk_res EXCEPT ![t] = "none"]
    /\ UNCHANGED <<dut, now, lk_holder, notLk>>

\* write_lock.acquire() returns in thread t, which enters self.ser.write(...).
LkAcquire(t) ==
    /\ lk_pc[t] = "waiting"
    /\ lk_holder = 0
    /\ lk_holder' = t
    /\ lk_pc' = [lk_pc EXCEPT ![t] = "inwrite"]
    /\ UNCHANGED <<dut, now, lk_res, notLk>>

\* self.ser.write(...) ends in thread t: all bytes, fewer, or SerialException.
LkPortWrite(t) ==
    /\ lk_pc[t] = "inwrite"
    /\ \E res \in {"full", "short", "SerialException"} :
        lk_res' = [lk_res EXCEPT ![t] = res]
    /\ lk_pc' = [lk_pc EXCEPT ![t] = "leaving"]
    /\ UNCHANGED <<dut, now, lk_holder, notLk>>

\* Thread t leaves the with-block, compares the count and returns or raises.
LkRelease(t) ==
    /\ lk_pc[t] = "leaving"
    /\ lk_holder' = LockAfterExit(t, lk_res[t])
    /\ lk_pc' = [lk_pc EXCEPT ![t] = "idle"]
    /\ lk_res' = [lk_res EXCEPT ![t] =
                    CASE lk_res[t] = "full" -> "ok"
                      [] lk_res[t] = "short" -> "DeviceError"
                      [] OTHER -> lk_res[t]]
    /\ UNCHANGED <<dut, now, notLk>>

\* ------------------------------------------------------------------------
\* Pure helpers: Device.to_float / to_int (dev_generic.py)
\* ------------------------------------------------------------------------

FnNoObs == [op |-> "none", arg |-> <<>>, kind |-> "none", num |-> <<>>]

FnInit == fn_ret = FnNoObs

\* DeviceError(*args): the exception that constructing it with nargs positional
\* arguments raises; __init__(self, value, **kwds) takes one.
DeviceErrorInit(nargs) == IF nargs = 1 THEN "DeviceError" ELSE "TypeError"

\* float(value) for a str: <<numerator, denominator>>, <<1, 0>> for infinity,
\* <<>> where float raises ValueError.
PyFloat(value) ==
    IF LStrip(RStrip(value)) = <<"i", "n", "f">> THEN <<1, 0>> ELSE ParseFloat(value)

\* float.is_integer()
IsInteger(v) == v[2] # 0 /\ v[1] % v[2] = 0

\* Device.to_float(value)
ToFloat(value) ==
    IF PyFloat(value) = <<>>
    THEN [FnNoObs EXCEPT !.op = "to_float", !.arg = value, !.kind = DeviceErrorInit(2)]
    ELSE [FnNoObs EXCEPT !.op = "to_float", !.arg = value, !.kind = "value",
                         !.num = PyFloat(value)]

\* Device.to_int(value)
ToInt(value) ==
    IF PyFloat(value) = <<>>
    THEN [FnNoObs EXCEPT !.op = "to_int", !.arg = value, !.kind = DeviceErrorInit(1)]
    ELSE IF ~IsInteger(PyFloat(value))
    THEN [FnNoObs EXCEPT !.op = "to_int", !.arg = value, !.kind = DeviceErrorInit(1)]
    ELSE [FnNoObs EXCEPT !.op = "to_int", !.arg = value, !.kind = "value",
                         !.num = <<PyFloat(value)[1] \div PyFloat(value)[2], 1>>]

\* The values handed to the coercion helpers.
CoerceInputs == SeqsUpTo({"0", "1", ".", "x"}, MaxPayload) \cup {<<"i", "n", "f">>}

\* A call of to_float or to_int.
Coerce ==
    /\ dut = "coerce"
    /\ \E value \in CoerceInputs :
        \/ fn_ret' = ToFloat(value)
        \/ fn_ret' = ToInt(value)
    /\ UNCHANGED <<dut, now, notFn>>

\* ------------------------------------------------------------------------
\* Position conversion and status decoding of the motion controller
\* (thorlabs_k10cr1.py).  The file keeps convertmmtoDevUnits,
\* convertDevUnitsTomm and getDeviceStatus as commented-out methods next to
\* def_device_units and POSITION_PRECISION; class ThorlabsK10CR1 defines none of
\* them.
\* ------------------------------------------------------------------------

\* def_device_units['Z8xx']['Position'], the only factor defined: 34554.96
\* steps per unit, here per 100 units.
DeviceUnitsPosition == 3455496

\* positionSigDigits = int(-log10(POSITION_PRECISION)), POSITION_PRECISION = 1e-5
PositionSigDigits == 5

\* Positions converted: 0..MaxPosition, in millionths of a unit.
MaxPosition == 600

\* np.around(a/b, 0) for a >= 0, b > 0: to the nearest integer, halves to even.
RoundDiv(a, b) ==
    LET q == a \div b
        r == a % b
    IN
    IF 2 * r < b THEN q
    ELSE IF 2 * r > b THEN q + 1
    ELSE IF q % 2 = 0 THEN q ELSE q + 1

\* convertmmtoDevUnits: int(np.around(position_mm * factor, 0)), for a position
\* x given in millionths.
ConvertMmToDevUnits(x) == RoundDiv(x * DeviceUnitsPosition, 100 * 1000000)

\* convertDevUnitsTomm: np.around(position / factor, positionSigDigits); the
\* result in units of 10^-positionSigDigits.
ConvertDevUnitsToMm(position) ==
    RoundDiv(position * 100 * Pow10(PositionSigDigits), DeviceUnitsPosition)

\* A position is converted to device units and back.
ConvertRoundTrip ==
    /\ dut = "units"
    /\ \E x \in 0..MaxPosition :
        fn_ret' = [op |-> "round_trip", x |-> x, steps |-> ConvertMmToDevUnits(x),
                   position |-> ConvertDevUnitsToMm(ConvertMmToDevUnits(x))]
    /\ UNCHANGED <<dut, now, notFn>>

\* statusDict of getDeviceStatus: the flag, its bit of the status word, and
\* whether the flag is 1 - bit rather than the bit.
StatusTable ==
    << <<"CWHardwareLimitSwitch", 0, FALSE>>,
       <<"CCWHardwareLimitSwitch", 1, FALSE>>,
       <<"CWSoftwareLimitSwitch", 2, FALSE>>,
       <<"CCWSoftwareLimitSwitch", 3, FALSE>>,
       <<"MotorShaftMovingClockwise", 4, TRUE>>,
       <<"MotorShaftMovingCounterclockwise", 5, TRUE>>,
       <<"ShaftJoggingClockwise", 6, TRUE>>,
       <<"ShaftJoggingCounterclockwise", 7, TRUE>>,
       <<"MotorConnected", 8, TRUE>>,
       <<"MotorHoming", 9, TRUE>>,
       <<"MotorHomed", 10, TRUE>>,
       <<"DigitalInput1", 20, FALSE>>,
       <<"DigitalInput2", 21, FALSE>>,
       <<"DigitalInput3", 22, FALSE>>,
       <<"DigitalInput4", 23, FALSE>>,
       <<"DigitalInput5", 24, FALSE>>,
       <<"DigitalInput6", 25, FALSE>>,
       <<"Active", 29, TRUE>>,
       <<"ChannelEnabled", 31, FALSE>> >>

\* A 32-bit status word is <<high half, low half>>; the word with the bits of S
\* set, for S of at most two bits.
RECURSIVE WordOf(_)
WordOf(S) ==
    IF S = {} THEN <<0, 0>>
    ELSE LET i == CHOOSE j \in S : TRUE
             w == WordOf(S \ {i})
         IN IF i < 16 THEN <<w[1], w[2] + 2^i>> ELSE <<w[1] + 2^(i - 16), w[2]>>

\* statusBits[i] after bin(), zfill(32) and reverse(): bit i of the word.
Bit(word, i) ==
    IF i < 16 THEN (word[2] \div 2^i) % 2 ELSE (word[1] \div 2^(i - 16)) % 2

\* The status words decoded: no bit, one bit or two bits set.
StatusWords == {WordOf({i, j}) : i \in 0..31, j \in 0..31} \cup {<<0, 0>>}

\* getDeviceStatus: the value of each flag of StatusTable, in its order.
GetDeviceStatus(word) ==
    [k \in 1..Len(StatusTable) |->
        IF StatusTable[k][3] THEN 1 - Bit(word, StatusTable[k][2])
        ELSE Bit(word, StatusTable[k][2])]

\* A status word is decoded.
DecodeStatus ==
    /\ dut = "status"
    /\ \E word \in StatusWords :
        fn_ret' = [op |-> "get_device_status", word |-> word,
                   status |-> GetDeviceStatus(word)]
    /\ UNCHANGED <<dut, now, notFn>>

\* ------------------------------------------------------------------------
\* VISA devices: Device.init_visa, visa_write, visa_query (dev_generic.py)
\* ------------------------------------------------------------------------

\* The configurations exercised: VISAIDN <<"A">> or not configured (hasidn
\* FALSE), Timeout 1 s or not configured (None), CmdOnInit configured or not.
ViConfigs ==
    [hasidn : BOOLEAN, idn : {<<"A">>}, timeout : {None, 1}, cmd : BOOLEAN]

\* Replies of the instrument to '*IDN?'.
ViReplies == {<<"A">>, <<"A", "LF">>, <<"B", "LF">>}

\* What the caller and the VISA library see of an operation: how it ended,
\* whether the address was among the listed resources, the open_resource calls,
\* queries and writes made, and the text returned.
ViNoObs ==
    [op |-> "none", kind |-> "none", found |-> FALSE, opened |-> 0, queries |-> 0,
     writes |-> 0, text |-> <<>>]

ViInit ==
    /\ vi_cfg \in (IF dut = "visa" THEN ViConfigs
                   ELSE {[hasidn |-> FALSE, idn |-> <<"A">>, timeout |-> None,
                          cmd |-> FALSE]})
    /\ vi_resource = "none"
    /\ vi_present = FALSE
    /\ vi_warning = FALSE
    /\ vi_timeout = None
    /\ vi_ret = ViNoObs

\* The state an operation starts from, as a record.
ViState ==
    [raised |-> "none", resource |-> vi_resource, present |-> vi_present,
     warning |-> vi_warning, timeout |-> vi_timeout, opened |-> 0, queries |-> 0,
     writes |-> 0]

\* init_visa after the identity query returned rcvd, where a mismatch of the
\* identity ends the initialisation.
InitVisaStrictIdn(st, rcvd, cmdok) ==
    LET t == [st EXCEPT !.timeout = IF vi_cfg.timeout # None THEN vi_cfg.timeout * 1000
                                    ELSE st.timeout]
        mismatch == vi_cfg.hasidn /\ rcvd # vi_cfg.idn
    IN
    IF mismatch THEN [t EXCEPT !.warning = TRUE, !.raised = "DeviceError"]
    ELSE IF vi_cfg.cmd /\ ~cmdok THEN [t EXCEPT !.writes = 1, !.raised = "DeviceError"]
    ELSE [t EXCEPT !.writes = IF vi_cfg.cmd THEN 1 ELSE 0, !.present = TRUE]

\* init_visa after the identity query returned rcvd (stripped): the timeout,
\* the comparison with VISAIDN, CmdOnInit through visa_write (cmdok: the write
\* does not raise VisaIOError), device_present.
InitVisaAfterIdn(st, rcvd, cmdok) ==
    LET t == [st EXCEPT !.timeout = IF vi_cfg.timeout # None THEN vi_cfg.timeout * 1000
                                    ELSE st.timeout]
        w == [t EXCEPT !.warning = IF vi_cfg.hasidn /\ rcvd # vi_cfg.idn THEN TRUE
                                   ELSE t.warning]
    IN
    IF vi_cfg.cmd /\ ~cmdok THEN [w EXCEPT !.writes = 1, !.raised = "DeviceError"]
    ELSE [w EXCEPT !.writes = IF vi_cfg.cmd THEN 1 ELSE 0, !.present = TRUE]

\* init_visa that does not look the address up in the listed resources.
InitVisaNoLookup(found, openok, idnok, reply, cmdok) ==
    IF ~openok THEN [ViState EXCEPT !.raised = "DeviceError", !.opened = 1]
    ELSE IF ~idnok
    THEN [ViState EXCEPT !.raised = "DeviceError", !.opened = 1, !.queries = 1,
                         !.resource = "open"]
    ELSE InitVisaAfterIdn([ViState EXCEPT !.opened = 1, !.queries = 1,
                                          !.resource = "open"],
                          RStrip(reply), cmdok)

\* init_visa(): found is whether Address is among the listed resources, openok
\* whether open_resource returns, idnok whether the '*IDN?' query returns (with
\* reply), cmdok whether the write of CmdOnInit succeeds.
InitVisaResult(found, openok, idnok, reply, cmdok) ==
    IF ~found THEN [ViState EXCEPT !.raised = "DeviceError"]
    ELSE IF ~openok THEN [ViState EXCEPT !.raised = "DeviceError", !.opened = 1]
    ELSE IF ~idnok
    THEN [ViState EXCEPT !.raised = "DeviceError", !.opened = 1, !.queries = 1,
                         !.resource = "open"]
    ELSE InitVisaAfterIdn([ViState EXCEPT !.opened = 1, !.queries = 1,
                                          !.resource = "open"],
                          RStrip(reply), cmdok)

\* init_visa() on a device not yet present
InitVisa(found, openok, idnok, reply, cmdok) ==
    /\ dut = "visa"
    /\ ~vi_present
    /\ LET r == InitVisaResult(found, openok, idnok, reply, cmdok) IN
       /\ vi_resource' = r.resource
       /\ vi_present' = r.present
       /\ vi_warning' = r.warning
       /\ vi_timeout' = r.timeout
       /\ vi_ret' = [ViNoObs EXCEPT !.op = "init_visa", !.kind = r.raised,
                                    !.found = found, !.opened = r.opened,
                                    !.queries = r.queries, !.writes = r.writes,
                                    !.text = IF r.queries = 1 /\ idnok THEN RStrip(reply)
                                             ELSE <<>>]
    /\ UNCHANGED <<dut, now, vi_cfg, notVi>>

\* visa_query(query): ok is whether the resource's query returns (with reply).
VisaQuery(ok, reply) ==
    /\ dut = "visa"
    /\ vi_ret' =
        IF vi_resource = "none"
        THEN [ViNoObs EXCEPT !.op = "visa_query", !.kind = "AttributeError"]
        ELSE IF ~ok
        THEN [ViNoObs EXCEPT !.op = "visa_query", !.kind = "DeviceError", !.queries = 1]
        ELSE [ViNoObs EXCEPT !.op = "visa_query", !.kind = "value", !.queries = 1,
                             !.text = RStrip(reply)]
    /\ UNCHANGED <<dut, now, vi_cfg, vi_resource, vi_present, vi_warning, vi_timeout,
                   notVi>>

\* visa_write(cmd): ok is whether the resource's write returns.
VisaWrite(ok) ==
    /\ dut = "visa"
    /\ vi_ret' =
        IF vi_resource = "none"
        THEN [ViNoObs EXCEPT !.op = "visa_write", !.kind = "AttributeError"]
        ELSE [ViNoObs EXCEPT !.op = "visa_write", !.writes = 1,
                             !.kind = IF ok THEN "none" ELSE "DeviceError"]
    /\ UNCHANGED <<dut, now, vi_cfg, vi_resource, vi_present, vi_warning, vi_timeout,
                   notVi>>

InitVisaStep ==
    \E found \in BOOLEAN, openok \in BOOLEAN, idnok \in BOOLEAN, reply \in ViReplies,
       cmdok \in BOOLEAN : InitVisa(found, openok, idnok, reply, cmdok)

NextVisa ==
    \/ InitVisaStep
    \/ \E ok \in BOOLEAN, reply \in ViReplies : VisaQuery(ok, reply)
    \/ \E ok \in BOOLEAN : VisaWrite(ok)

\* ------------------------------------------------------------------------
\* Blocking calls on a device that never answers: the serial queries and the
\* DAQ reads and writes, second by second
\* ------------------------------------------------------------------------

\* The timeout NI9264andNI9205 passes to WriteAnalogF64 / ReadAnalogF64 (s).
NiTimeout == 10

\* Seconds a blocking call is followed for.
MaxWait == 11

BqNoObs == [op |-> "none", kind |-> "none", calls |-> 0, waited |-> 0]

\* No blocking call is in progress; the device is configured with one of the
\* timeouts.
BqInit(timeouts) ==
    /\ bq_timeout \in timeouts
    /\ bq_pc = "idle"
    /\ bq_wait = 0
    /\ bq_ret = BqNoObs

\* The operations that block on the device.
BqOps(d) ==
    CASE d = "mdt" -> {"query", "send_command"}
      [] d \in {"hvs", "ni"} -> {"read", "write"}
      [] OTHER -> {"query"}

\* The blocking calls an operation makes: ThorlabsMDT693B.query reads until
\* '\r' and then reads the acknowledgement; every other operation blocks once.
BqCalls(d, op) == IF d = "mdt" /\ op = "query" THEN 2 ELSE 1

\* A driver that opens the port, or calls the DAQ, without a timeout.
TransportTimeoutDropped(d, timeout) == None

\* The timeout the blocking call runs under, None for none: the configured
\* one for the serial ports and for hvsController, a fixed one for
\* NI9264andNI9205.
TransportTimeout(d, timeout) == IF d = "ni" THEN NiTimeout ELSE timeout

\* How the operation ends once its last blocking call has returned nothing
\* (an empty read on a serial port, DAQError from the DAQ).
BqOutcome(d, op) ==
    CASE d = "kjlc" -> KjlcCheckResponse(kj_addr, <<>>).raised
      [] d = "ctc" -> CtcCheckResponse(<<>>).raised
      [] d = "sim" ->
            LET command == CHOOSE c \in SimChannels : TRUE IN
            SimQuery(command, Len(command) + 1, FALSE, <<>>).kind
      [] d = "mdt" -> MdtCheckAck(<<>>)
      [] d = "hvs" -> "DeviceError"
      [] OTHER -> "DAQError"

\* An operation is called on a connected device and enters its first blocking
\* call (the serial drivers have written the command).
BqCall(op) ==
    /\ op \in BqOps(dut)
    /\ bq_pc \in {"idle", "done"}
    /\ dut \in {"kjlc", "sim", "ctc", "mdt"} => ser_port = "open"
    /\ dut = "hvs" => hvs_tasks = "started"
    /\ bq_pc' = "reading"
    /\ bq_wait' = 0
    /\ bq_ret' = [BqNoObs EXCEPT !.op = op, !.calls = 1]
    /\ UNCHANGED <<dut, now, bq_timeout, notBq>>

\* A second passes inside the blocking call.
BqWait ==
    /\ bq_pc = "reading"
    /\ bq_wait < MaxWait
    /\ LET t == TransportTimeout(dut, bq_timeout) IN t = None \/ bq_wait < t
    /\ bq_wait' = bq_wait + 1
    /\ UNCHANGED <<dut, now, bq_timeout, bq_pc, bq_ret, notBq>>

\* The timeout of the blocking call expires: it returns, and the operation
\* enters its next blocking call or ends.
BqExpire ==
    /\ bq_pc = "reading"
    /\ LET t == TransportTimeout(dut, bq_timeout) IN t # None /\ bq_wait >= t
    /\ LET waited == IF bq_wait > bq_ret.waited THEN bq_wait ELSE bq_ret.waited IN
       IF bq_ret.calls < BqCalls(dut, bq_ret.op)
       THEN /\ bq_ret' = [bq_ret EXCEPT !.calls = @ + 1, !.waited = waited]
            /\ bq_pc' = "reading"
       ELSE /\ bq_ret' = [bq_ret EXCEPT !.kind = BqOutcome(dut, bq_ret.op),
                                        !.waited = waited]
            /\ bq_pc' = "done"
    /\ bq_wait' = 0
    /\ UNCHANGED <<dut, now, bq_timeout, notBq>>

\* ------------------------------------------------------------------------
\* ThorlabsBC (thorlabs_bc.py): the vendor SDK's error codes
\* ------------------------------------------------------------------------

\* What the caller and the SDK see of an operation: how it ended, whether an
\* SDK call of it returned a nonzero error code, the value passed to a setter,
\* and the bc2.close() calls it made.
BcNoObs == [op |-> "none", kind |-> "none", sdkerr |-> FALSE, val |-> 0, closes |-> 0]

BcInit ==
    /\ bc_built = "new"
    /\ bc_session = "none"
    /\ bc_ret = BcNoObs

\* The properties with a getter and a setter that call the SDK.
BcProps ==
    {"exposure_time", "auto_exposure", "gain", "binning", "roi",
     "calculation_area_mode", "user_calculation_area", "clip_level"}

\* Values passed to a setter.
BcValues == {1, 2, 3}

\* A call of error_exit(self, err) with nargs arguments after self, on the
\* session sess: one argument reads the message, closes the session and raises
\* DeviceError; any other number is a TypeError raised by the call itself.
ErrorExit(nargs, sess) ==
    IF nargs = 1 THEN [raised |-> "DeviceError", session |-> "closed", closes |-> 1]
    ELSE [raised |-> "TypeError", session |-> sess, closes |-> 0]

\* __init__: found and available are what the enumeration says of the serial
\* number; failat is the SDK call that returns a nonzero code (1
\* get_device_count, 2 open, 3 revision_query, 4 get_sensor_information, 5
\* set_clip_level; 0 none).  Calls 1-4 pass (bc2, err) to error_exit, the
\* clip_level setter (self.bc2, err).
BcConstruct(found, available, failat) ==
    /\ dut = "bc"
    /\ bc_built = "new"
    /\ LET sess == IF failat = 1 \/ ((~found \/ ~available) /\ failat # 1) THEN "none"
                   ELSE IF failat = 2 THEN "none" ELSE "open"
           e == ErrorExit(2, sess)
       IN
       IF failat = 1 \/ (found /\ available /\ failat # 0)
       THEN /\ bc_ret' = [BcNoObs EXCEPT !.op = "__init__", !.kind = e.raised,
                                         !.sdkerr = TRUE, !.closes = e.closes]
            /\ bc_session' = e.session
            /\ bc_built' = "failed"
       ELSE IF ~found \/ ~available
       THEN /\ bc_ret' = [BcNoObs EXCEPT !.op = "__init__", !.kind = "DeviceError"]
            /\ bc_session' = "none"
            /\ bc_built' = "failed"
       ELSE /\ bc_ret' = [BcNoObs EXCEPT !.op = "__init__"]
            /\ bc_session' = "open"
            /\ bc_built' = "built"
    /\ UNCHANGED <<dut, now, notBc>>

\* A property getter (set FALSE) or setter (set TRUE, with value): err is
\* whether the SDK call returns a nonzero code.  The binning setter makes no
\* SDK call for a value outside 1, 2, 4, 8, 16, and returns.
BcProperty(prop, set, value, err) ==
    /\ dut = "bc"
    /\ bc_built = "built"
    /\ LET called == ~(set /\ prop = "binning" /\ value \notin {1, 2, 4, 8, 16})
           e == ErrorExit(2, bc_session)
       IN
       IF called /\ err
       THEN /\ bc_ret' = [BcNoObs EXCEPT !.op = prop, !.kind = e.raised, !.sdkerr = TRUE,
                                         !.val = IF set THEN value ELSE 0,
                                         !.closes = e.closes]
            /\ bc_session' = e.session
       ELSE /\ bc_ret' = [BcNoObs EXCEPT !.op = prop,
                                         !.kind = IF set THEN "none" ELSE "value",
                                         !.val = IF set THEN value ELSE 0]
            /\ bc_session' = bc_session
    /\ UNCHANGED <<dut, now, bc_built, notBc>>

\* read_frame(): err is whether get_scan_data returns a nonzero code, valid is
\* scan_data['isValid'], imgerr whether get_image returns a nonzero code (its
\* code is not looked at).
BcReadFrame(err, valid, imgerr) ==
    /\ dut = "bc"
    /\ bc_built = "built"
    /\ LET e == ErrorExit(1, bc_session) IN
       IF err
       THEN /\ bc_ret' = [BcNoObs EXCEPT !.op = "read_frame", !.kind = e.raised,
                                         !.sdkerr = TRUE, !.closes = e.closes]
            /\ bc_session' = e.session
       ELSE /\ bc_ret' = [BcNoObs EXCEPT !.op = "read_frame", !.kind = "value",
                                         !.sdkerr = valid /\ imgerr,
                                         !.val = IF valid THEN 1 ELSE 0]
            /\ bc_session' = bc_session
    /\ UNCHANGED <<dut, now, bc_built, notBc>>

\* close()
BcClose ==
    /\ dut = "bc"
    /\ bc_built = "built"
    /\ bc_ret' = [BcNoObs EXCEPT !.op = "close", !.closes = 1]
    /\ bc_session' = "closed"
    /\ UNCHANGED <<dut, now, bc_built, notBc>>

\* ------------------------------------------------------------------------
\* ThorlabsMDT693B.query called from several threads (thorlabs_mdt693b.py):
\* write() under write_lock, then the two reads under read_lock.  The device
\* answers each command, in the order the commands arrive, with a response
\* ended by '\r' and the prompt; thread t's command and its answer carry t.
\* ------------------------------------------------------------------------

TxInit ==
    /\ tx_wlock = 0
    /\ tx_rlock = 0
    /\ tx_pc = [t \in Threads |-> "idle"]
    /\ tx_in = <<>>
    /\ tx_got = [t \in Threads |-> <<>>]

\* Thread t calls query(command).
TxCall(t) ==
    /\ dut = "mdt_query"
    /\ tx_pc[t] \in {"idle", "done"}
    /\ tx_pc' = [tx_pc EXCEPT ![t] = "with write_lock"]
    /\ tx_got' = [tx_got EXCEPT ![t] = <<>>]
    /\ UNCHANGED <<dut, now, tx_wlock, tx_rlock, tx_in, notTx>>

\* Thread t enters `with write_lock:` or `with read_lock:`.
TxAcquire(t) ==
    /\ dut = "mdt_query"
    /\ \/ /\ tx_pc[t] = "with write_lock"
          /\ tx_wlock = 0
          /\ tx_wlock' = t
          /\ tx_pc' = [tx_pc EXCEPT ![t] = "write"]
          /\ UNCHANGED tx_rlock
       \/ /\ tx_pc[t] = "with read_lock"
          /\ tx_rlock = 0
          /\ tx_rlock' = t
          /\ tx_pc' = [tx_pc EXCEPT ![t] = "read_until"]
          /\ UNCHANGED tx_wlock
    /\ UNCHANGED <<dut, now, tx_in, tx_got, notTx>>

\* self.ser.write(...): the device receives thread t's command and answers it.
TxWrite(t) ==
    /\ dut = "mdt_query"
    /\ tx_pc[t] = "write"
    /\ tx_in' = tx_in \o << <<"response", t>>, <<"prompt", t>> >>
    /\ tx_pc' = [tx_pc EXCEPT ![t] = "release write_lock"]
    /\ UNCHANGED <<dut, now, tx_wlock, tx_rlock, tx_got, notTx>>

\* self.ser.read_until(b'\r'), then self.ser.read(1): each takes what is first
\* in the input buffer.
TxRead(t) ==
    /\ dut = "mdt_query"
    /\ tx_pc[t] \in {"read_until", "read"}
    /\ tx_in # <<>>
    /\ tx_got' = [tx_got EXCEPT ![t] = Append(@, Head(tx_in))]
    /\ tx_in' = Tail(tx_in)
    /\ tx_pc' = [tx_pc EXCEPT ![t] = IF tx_pc[t] = "read_until" THEN "read"
                                     ELSE "release read_lock"]
    /\ UNCHANGED <<dut, now, tx_wlock, tx_rlock, notTx>>

\* Thread t leaves the with-block.
TxRelease(t) ==
    /\ dut = "mdt_query"
    /\ \/ /\ tx_pc[t] = "release write_lock"
          /\ tx_wlock' = 0
          /\ tx_pc' = [tx_pc EXCEPT ![t] = "with read_lock"]
          /\ UNCHANGED tx_rlock
       \/ /\ tx_pc[t] = "release read_lock"
          /\ tx_rlock' = 0
          /\ tx_pc' = [tx_pc EXCEPT ![t] = "done"]
          /\ UNCHANGED tx_wlock
    /\ UNCHANGED <<dut, now, tx_in, tx_got, notTx>>

\* ------------------------------------------------------------------------
\* ThorlabsPM100 sensor flags (thorlabs_pm100.py, class _sensor)
\* ------------------------------------------------------------------------

\* Width of the sensor flags word the device reports, in bits.
PmFlagBits == 9

PmFlagWords == 0..(2^PmFlagBits - 1)

PmSensorProps ==
    {"power_sensor", "energy_sensor", "wavelength_settable", "temperature_sensor"}

\* The shifts with the positions 0 to 3, one after the other.
PmSensorShiftPacked(p) ==
    CASE p = "power_sensor" -> 0
      [] p = "energy_sensor" -> 1
      [] p = "wavelength_settable" -> 2
      [] p = "temperature_sensor" -> 3

\* The shift each property applies to self._flags.
PmSensorShift(p) ==
    CASE p = "power_sensor" -> 0
      [] p = "energy_sensor" -> 1
      [] p = "wavelength_settable" -> 5
      [] p = "temperature_sensor" -> 8

\* bool((self._flags >> shift) % 2)
PmSensorFlag(p, flags) == ((flags \div 2^PmSensorShift(p)) % 2) # 0

\* The connected sensor reports one of the flags words.
PmInit == pm_flags \in (IF dut = "pm100" THEN PmFlagWords ELSE {0})

\* Outcomes of the 'SYSTem:SENSor:IDN?' query: six comma-separated fields with
\* integers in the last three, a reply that does not split or convert so, or a
\* VisaIOError.
PmIdnReplies == {"ok", "malformed", "VisaIOError"}

\* The properties power_sensor, energy_sensor, wavelength_settable and
\* temperature_sensor: the idn getter, then the flag.  pm_flags is the integer
\* the reply's sixth field denotes.
PmSensorProperty(p, reply) ==
    /\ dut = "pm100"
    /\ fn_ret' =
        [op |-> p, flags |-> pm_flags, sent |-> <<"SYSTem:SENSor:IDN?">>,
         kind |-> CASE reply = "ok" -> "value"
                    [] reply = "malformed" -> "ValueError"
                    [] reply = "VisaIOError" -> "DeviceError",
         val |-> IF reply = "ok" THEN PmSensorFlag(p, pm_flags) ELSE FALSE]
    /\ UNCHANGED <<dut, now, pm_flags, notFn>>

\* ------------------------------------------------------------------------
\* VISA property drivers: Keysight53220A.gate, RigolRSA3000.yunit,
\* SiglentSSA3000XPlus.yunit and ThorlabsPM100.power.unit
\* ------------------------------------------------------------------------

\* Values assigned to the properties and texts the instruments reply.
ScpiValues == {"POS", "NEG", "0.5", "DBM", "DBMV", "DBUV", "DBUA", "V", "W", "dBm", ""}

\* What the caller and the instrument see of a property access: the property,
\* whether it was assigned, the value assigned, how the access ended, the VISA
\* commands sent as <<"query" or "write", header, argument>> (the text sent is
\* the header, and for a write a space and the argument), and the value returned.
ScpiObs(op, set, arg, kind, sent, val) ==
    [op |-> op, set |-> set, arg |-> arg, kind |-> kind, sent |-> sent, val |-> val]

\* visa_query(header) with the reply `reply`, or a VisaIOError if ~ok, and
\* visa_write(header + ' ' + arg), as the access `op`.
ScpiQuery(op, header, ok, reply) ==
    ScpiObs(op, FALSE, "", IF ok THEN "value" ELSE "DeviceError",
            << <<"query", header, "">> >>, IF ok THEN reply ELSE "")

ScpiWrite(op, header, arg, ok) ==
    ScpiObs(op, TRUE, arg, IF ok THEN "none" ELSE "DeviceError",
            << <<"write", header, arg>> >>, "")

\* Python's property(fget) and prop.setter(fset): the latter is a new property
\* with prop's getter and the setter fset.
Property(fget) == [fget |-> fget, fset |-> "none"]

Setter(prop, fset) == [fget |-> prop.fget, fset |-> fset]

\* The class body of Keysight53220A._gate, statement by statement: each def is
\* decorated and then bound to the name of the function defined.
KsGateClass ==
    LET ns1 == [slope |-> Property("get slope")]
        ns2 == [slope |-> Setter(ns1.slope, "set slope")]
        ns3 == [slope |-> ns2.slope, delay |-> Property("get delay")]
        ns4 == [slope |-> ns3.slope, delay |-> Setter(ns3.slope, "set delay")]
    IN ns4

\* The bodies of the four functions of _gate.
KsGateCall(op, f, value, ok, reply) ==
    CASE f = "get slope" -> ScpiQuery(op, ":GATE:STARt:SLOPe?", ok, reply)
      [] f = "set slope" -> ScpiWrite(op, ":GATE:STARt:SLOPe", value, ok)
      [] f = "get delay" -> ScpiQuery(op, ":GATE:STARt:DELay:TIME?", ok, reply)
      [] f = "set delay" -> ScpiWrite(op, "SENSe:GATE:STARt:SLOPe", value, ok)

\* Reading (set = FALSE) or assigning (set = TRUE) gate.slope or gate.delay.
KsGate(attr, set, value, ok, reply) ==
    /\ dut = "keysight"
    /\ LET prop == KsGateClass[attr]
           op == IF attr = "slope" THEN "gate.slope" ELSE "gate.delay"
       IN
       fn_ret' = IF set
                 THEN IF prop.fset = "none"
                      THEN ScpiObs(op, TRUE, value, "AttributeError", <<>>, "")
                      ELSE KsGateCall(op, prop.fset, value, ok, reply)
                 ELSE KsGateCall(op, prop.fget, value, ok, reply)
    /\ UNCHANGED <<dut, now, notFn>>

\* The drivers with a unit property restricted to a list, and the property.
UnitDuts == {"rigol", "siglent", "pm_power"}

UnitOp(d) == IF d = "pm_power" THEN "power.unit" ELSE "yunit"

UnitHeader(d) == IF d = "pm_power" THEN "SENSe:POWer:UNIT" ELSE ":UNIT:POWer"

\* The list each setter tests its argument against.
UnitList(d) ==
    CASE d = "rigol" -> {"DBM", "DBMV", "DBUV", "V", "W"}
      [] d = "siglent" -> {"DBM", "DBMV", "DBUV", "DBUA", "V", "W"}
      [] d = "pm_power" -> {"W", "DBM"}

\* What the raise statement of each setter raises: RigolRSA3000 has no
\* attribute outer_instance, which its message is formatted from.
UnitRejects(d) == IF d = "rigol" THEN "AttributeError" ELSE "DeviceError"

\* Reading (set = FALSE) or assigning (set = TRUE) yunit / power.unit.
UnitProperty(set, value, ok, reply) ==
    /\ dut \in UnitDuts
    /\ fn_ret' = IF ~set
                 THEN ScpiQuery(UnitOp(dut), UnitHeader(dut) \o "?", ok, reply)
                 ELSE IF value \notin UnitList(dut)
                 THEN ScpiObs(UnitOp(dut), TRUE, value, UnitRejects(dut), <<>>, "")
                 ELSE ScpiWrite(UnitOp(dut), UnitHeader(dut), value, ok)
    /\ UNCHANGED <<dut, now, notFn>>

\* ------------------------------------------------------------------------
\* Time and the specifications
\* ------------------------------------------------------------------------

Tick ==
    /\ now < MaxTime
    /\ now' = now + 1
    /\ UNCHANGED <<dut, kpaVars, k10Vars, hvsVars, serVars, lkVars, fnVars, viVars, bqVars, bcVars, txVars, pmVars>>

vars == <<dut, now, kpaVars, k10Vars, hvsVars, serVars, lkVars, fnVars, viVars, bqVars, bcVars, txVars, pmVars>>

InitAll ==
    /\ now = 0
    /\ KpaInit
    /\ K10Init
    /\ HvsInit
    /\ SerInit
    /\ LkInit
    /\ FnInit
    /\ ViInit
    /\ BqInit({None})
    /\ BcInit
    /\ TxInit
    /\ PmInit

NextKpa ==
    \/ KpaConnect
    \/ KpaClose
    \/ \E p \in KpaProps : KpaProperty(p)
    \/ \E set \in BOOLEAN : KpaOperationMode(set)

NextK10 ==
    \/ K10Connect
    \/ K10Close
    \/ \E op \in {"get_position", "stop"} : K10Call(op)

InitOpenFlag == dut \in {"kpa", "k10"} /\ InitAll

NextOpenFlag == NextKpa \/ NextK10 \/ Tick

\* The drivers with an open flag: ThorlabsKPA101 and ThorlabsK10CR1.
SpecOpenFlag == InitOpenFlag /\ [][NextOpenFlag]_vars

InitCached == dut \in {"kpa", "hvs"} /\ InitAll

NextCached ==
    \/ NextKpa
    \/ HvsConnect
    \/ \E old \in HvsNames, new \in HvsNames : HvsSetName(old, new)
    \/ \E what \in {"voltage", "current"}, n \in HvsNames : HvsRead(what, n)
    \/ Tick

\* The drivers with a reading cache, over time: ThorlabsKPA101 and hvsController.
SpecCached == InitCached /\ [][NextCached]_vars

InitSerial ==
    /\ dut \in {"ctc", "mdt", "kjlc", "sim"}
    /\ InitAll

NextSerial ==
    \/ SerConnect
    \/ SerClose
    \/ CtcOp
    \/ MdtOp
    \/ KjlcOp
    \/ SimOp

\* The serial drivers, one per behaviour.
SpecSerial == InitSerial /\ [][NextSerial]_vars

InitTimeout ==
    /\ dut \in {"kjlc", "sim", "ctc", "mdt", "hvs", "ni"}
    /\ now = 0
    /\ KpaInit /\ K10Init /\ HvsInit /\ SerInit /\ LkInit /\ FnInit /\ ViInit
    /\ BqInit({None, 1, 2})
    /\ BcInit /\ TxInit /\ PmInit

NextTimeout ==
    \/ SerConnect
    \/ HvsConnect
    \/ \E op \in {"query", "send_command", "read", "write"} : BqCall(op)
    \/ BqWait
    \/ BqExpire

\* Drivers calling a device that never answers.
SpecTimeout == InitTimeout /\ [][NextTimeout]_vars

\* Time passes, and a blocking call under a timeout returns when it expires.
FairSpecTimeout == SpecTimeout /\ WF_vars(BqWait) /\ WF_vars(BqExpire)

InitQueries ==
    /\ dut \in {"ctc", "mdt", "kjlc", "sim", "visa"}
    /\ InitAll

NextQueries == NextSerial \/ NextVisa

\* The drivers with a query operation: the serial drivers and the VISA devices.
SpecQueries == InitQueries /\ [][NextQueries]_vars

InitLegacy == dut \in {"units", "status"} /\ InitAll

NextLegacy == ConvertRoundTrip \/ DecodeStatus

\* The position conversion and the status decoding, over their inputs.
SpecLegacy == InitLegacy /\ [][NextLegacy]_vars

InitBc == dut = "bc" /\ InitAll

NextBc ==
    \/ \E found \in BOOLEAN, available \in BOOLEAN, failat \in 0..5 :
            BcConstruct(found, available, failat)
    \/ \E prop \in BcProps, set \in BOOLEAN, value \in BcValues, err \in BOOLEAN :
            BcProperty(prop, set, value, err)
    \/ \E err \in BOOLEAN, valid \in BOOLEAN, imgerr \in BOOLEAN :
            BcReadFrame(err, valid, imgerr)
    \/ BcClose

\* ThorlabsBC and its SDK.
SpecBc == InitBc /\ [][NextBc]_vars

InitLifecycle == dut \in {"kpa", "k10", "ctc", "mdt"} /\ InitAll

NextLifecycle == NextKpa \/ NextK10 \/ SerConnect \/ SerClose \/ CtcOp \/ MdtOp

\* The drivers with connect() and close(), in every order of their operations.
SpecLifecycle == InitLifecycle /\ [][NextLifecycle]_vars

InitTx == dut = "mdt_query" /\ InitAll

NextTx ==
    \E t \in Threads : TxCall(t) \/ TxAcquire(t) \/ TxWrite(t) \/ TxRead(t) \/ TxRelease(t)

\* Threads calling query on one ThorlabsMDT693B.
SpecTx == InitTx /\ [][NextTx]_vars

InitMix == dut = "hvs_mix" /\ InitAll

NextMix ==
    \/ HvsConnect
    \/ \E old \in HvsNames, new \in HvsNames : HvsSetName(old, new)
    \/ \E what \in {"voltage", "current"}, n \in HvsNames : HvsRead(what, n)

\* hvsController on every mix of models: connect, renames and reads.
SpecMix == InitMix /\ [][NextMix]_vars

InitPm == dut = "pm100" /\ InitAll

NextPm ==
    \E p \in PmSensorProps, reply \in PmIdnReplies : PmSensorProperty(p, reply)

\* The sensor properties of ThorlabsPM100 over the flags words.
SpecPm == InitPm /\ [][NextPm]_vars

InitScpi == dut \in {"keysight"} \cup UnitDuts /\ InitAll

NextScpi ==
    \/ \E attr \in {"slope", "delay"}, set \in BOOLEAN, value \in ScpiValues,
          ok \in BOOLEAN, reply \in ScpiValues : KsGate(attr, set, value, ok, reply)
    \/ \E set \in BOOLEAN, value \in ScpiValues, ok \in BOOLEAN, reply \in ScpiValues :
            UnitProperty(set, value, ok, reply)

\* Property accesses on the VISA drivers.
SpecScpi == InitScpi /\ [][NextScpi]_vars

InitLock ==
    /\ dut \in {"serial_write", "mdt_write"}
    /\ InitAll

NextLock == \E t \in Threads : LkCall(t) \/ LkAcquire(t) \/ LkPortWrite(t) \/ LkRelease(t)

\* Threads writing through Device.serial_write, or through ThorlabsMDT693B.write.
SpecLock == InitLock /\ [][NextLock]_vars

\* A thread inside the with-block runs on; a thread waiting for a lock that is
\* released again and again gets it.
FairSpecLock ==
    /\ SpecLock
    /\ \A t \in Threads :
        /\ WF_vars(LkPortWrite(t))
        /\ WF_vars(LkRelease(t))
        /\ SF_vars(LkAcquire(t))

InitHvs == dut = "hvs" /\ InitAll

\* hvsController at one instant: channel names, setpoints and readings.
SpecHvs == InitHvs /\ [][NextHvs]_vars

InitConnLayer == dut \in {"hvs", "mdt"} /\ InitAll

NextConnLayer ==
    \/ NextHvs
    \/ SerConnect
    \/ SerClose
    \/ MdtOp

\* The drivers whose operations meet connection-layer failures: hvsController
\* and ThorlabsMDT693B.
SpecConnLayer == InitConnLayer /\ [][NextConnLayer]_vars

InitCoerce == dut = "coerce" /\ InitAll

\* The numeric coercion helpers applied to text.
SpecCoerce == InitCoerce /\ [][Coerce]_vars

InitVisaDevice == dut = "visa" /\ InitAll

\* A VISA device: initialisation, writes and queries.
SpecVisa == InitVisaDevice /\ [][NextVisa]_vars

\* ------------------------------------------------------------------------
\* Claims
\* ------------------------------------------------------------------------

KpaReadStep == \E p \in KpaProps : KpaProperty(p)

HvsReadStep == \E what \in {"voltage", "current"}, n \in HvsNames : HvsRead(what, n)

HvsReadOps == {"read_voltage", "read_current"}

\* The cache a read operation returns from.
HvsCacheOf(op, voltages, currents) == IF op = "read_voltage" THEN voltages ELSE currents

C2_FailedRefreshInvalidates ==
    [][/\ (HvsReadStep /\ hvs_ret'.acq = 1 /\ hvs_ret'.hw # "ok") =>
            /\ hvs_ret'.kind = "DeviceError"
            /\ \A i \in 1..Len(hvs_voltages') : hvs_voltages'[i][2] = HvsNaN
            /\ \A i \in 1..Len(hvs_currents') : hvs_currents'[i][2] = HvsNaN
       /\ ( /\ HvsReadStep
            /\ hvs_ret.op \in HvsReadOps /\ hvs_ret.acq = 1 /\ hvs_ret.hw # "ok"
            /\ hvs_ret'.acq = 0 /\ hvs_ret'.kind = "value" ) =>
            hvs_ret'.val = HvsNaN
       /\ (KpaReadStep /\ kpa_ret'.vendor /\ kpa_ret'.kind # "value") =>
            /\ kpa_ret'.kind = "DeviceError"
            /\ kpa_cache' = KpaReadings(NaN)
      ]_vars

\* C3 (as claimed): a device-facing operation called while the open flag is
\* not set raises DeviceError and does not call the vendor handle.
C3_ClosedMeansDeviceError ==
    /\ (k10_ret.op \in {"get_position", "stop"} /\ ~k10_open) =>
            k10_ret.kind = "DeviceError" /\ ~k10_ret.vendor
    /\ ( /\ kpa_ret.op \in KpaProps \cup {"get_operation_mode", "set_operation_mode"}
         /\ ~kpa_device_connected ) =>
            kpa_ret.kind = "DeviceError" /\ ~kpa_ret.vendor

SerIoOps == {"write", "query", "read_temperature", "read_voltage", "set_voltage"}

\* C4 (as claimed): a write, query or read of SRSCTC100 or ThorlabsMDT693B
\* called while the serial port is not open (before connect, or after close)
\* raises DeviceError.
C4_NotOpenMeansDeviceError ==
    (dut \in {"ctc", "mdt"} /\ ser_ret.op \in SerIoOps /\ ser_port # "open") =>
        ser_ret.kind = "DeviceError"

\* C5: when the port reports a count of written bytes that differs from the
\* length of the framed command, the operation raises DeviceError and has read
\* no response.
C5_ShortWriteFails ==
    (ser_ret.op \in SerIoOps \cup {"read_pressure"} /\ ser_ret.n # None
        /\ ser_ret.n # Len(ser_ret.sent)) =>
            /\ ser_ret.kind = "DeviceError"
            /\ ser_ret.nreads = 0
            /\ ser_ret.rsp = <<>>

\* C5 witness: the pressure gauge query ended by DeviceError after the port took
\* all but one byte of the query.
C5_Witness ==
    /\ ser_ret.op = "read_pressure"
    /\ ser_ret.n = Len(ser_ret.sent) - 1
    /\ ser_ret.kind = "DeviceError"
    /\ ser_ret.nreads = 0

\* C6: a pressure gauge query whose response is empty, is not ASCII, starts
\* with '?' or does not start with '*<InternalAddress> ' raises DeviceError, and
\* the error carries the response as it was read.
C6_BadResponseFails ==
    ( /\ dut = "kjlc"
      /\ ser_ret.nreads = 1
      /\ \/ ser_ret.rsp = <<>>
         \/ ~IsAscii(ser_ret.rsp)
         \/ StartsWith(ser_ret.rsp, <<"?">>)
         \/ ~StartsWith(ser_ret.rsp, <<"*">> \o kj_addr \o <<" ">>) ) =>
            /\ ser_ret.kind = "DeviceError"
            /\ ser_ret.err = ser_ret.rsp

\* C6 witness: a response acknowledging another address has been rejected
\* with an error carrying it.
C6_Witness ==
    /\ dut = "kjlc"
    /\ kj_addr = <<"1">>
    /\ StartsWith(ser_ret.rsp, <<"*", "2", " ", "1">>)
    /\ ser_ret.kind = "DeviceError"
    /\ ser_ret.err = ser_ret.rsp

\* C7 (as claimed): read_pressure sends '#<addr>RD\r'; on a response
\* '*<addr> <value>' it returns the text after '*<addr> ' as a float, for every
\* configured address; on a response starting with '?' it raises DeviceError.
C7_ReadPressureParsesValue ==
    (dut = "kjlc" /\ ser_ret.op = "read_pressure") =>
        LET ack == <<"*">> \o kj_addr \o <<" ">>
            value == SubSeq(ser_ret.rsp, Len(ack) + 1, Len(ser_ret.rsp))
        IN
        /\ ser_ret.sent = <<"#">> \o kj_addr \o <<"R", "D", "CR">>
        /\ ( /\ ser_ret.nreads = 1
             /\ IsAscii(ser_ret.rsp)
             /\ StartsWith(ser_ret.rsp, ack)
             /\ ParseFloat(value) # <<>> ) =>
                ser_ret.kind = "value" /\ ser_ret.num = ParseFloat(value)
        /\ (ser_ret.nreads = 1 /\ StartsWith(ser_ret.rsp, <<"?">>)) =>
                ser_ret.kind = "DeviceError"

C9_OneBatchedAcquisition ==
    [][HvsReadStep =>
        /\ hvs_ret'.acq \in {0, 1}
        /\ hvs_nacq' \in {hvs_nacq, hvs_nacq + 1}
        /\ (hvs_ret'.acq = 1 /\ hvs_ret'.hw = "ok") =>
            /\ hvs_nacq' = hvs_nacq + 1
            /\ \A c \in 1..Len(hvs_channels') :
                /\ DictHas(hvs_voltages', hvs_channels'[c].name)
                /\ DictGet(hvs_voltages', hvs_channels'[c].name)[1] = hvs_nacq'
                /\ hvs_channels'[c].model = KA10P =>
                    /\ DictHas(hvs_currents', hvs_channels'[c].name)
                    /\ DictGet(hvs_currents', hvs_channels'[c].name)[1] = hvs_nacq'
        /\ ( /\ hvs_last_reading_time # None
             /\ now - hvs_last_reading_time <= HvsCacheInterval ) =>
            hvs_ret'.acq = 0 /\ hvs_nacq' = hvs_nacq
      ]_vars

\* C9 witness: a current read answered from the cache that the second
\* acquisition filled.
C9_Witness ==
    /\ hvs_ret.op = "read_current"
    /\ hvs_ret.kind = "value"
    /\ hvs_ret.acq = 0
    /\ hvs_ret.val[1] = 2
    /\ hvs_nacq = 2

HvsSetNameStep == \E old \in HvsNames, new \in HvsNames : HvsSetName(old, new)

\* C10 (as claimed): set_name leaves, for the supply at every position of the
\* configuration, its model, its setpoint in the control-write vector and its
\* cached voltage and current as they were, and renames at most one supply.
C10_RenameKeepsChannels ==
    [][HvsSetNameStep =>
        /\ Len(hvs_channels') = Len(hvs_channels)
        /\ \A c \in 1..Len(hvs_channels) :
            /\ hvs_channels'[c].model = hvs_channels[c].model
            /\ hvs_write_voltages'[c][1] = hvs_channels'[c].name
            /\ hvs_write_voltages'[c][2] = hvs_write_voltages[c][2]
            /\ DictGet(hvs_voltages', hvs_channels'[c].name)
                = DictGet(hvs_voltages, hvs_channels[c].name)
            /\ hvs_channels[c].model = KA10P =>
                DictGet(hvs_currents', hvs_channels'[c].name)
                    = DictGet(hvs_currents, hvs_channels[c].name)
        /\ Cardinality({c \in 1..Len(hvs_channels) :
                            hvs_channels'[c].name # hvs_channels[c].name}) <= 1
      ]_vars


\* C11 (as claimed): after an operation has failed because of a
\* connection-layer failure (the serial port could not be opened, the port's
\* write raised SerialException in read_voltage / set_voltage, the DAQ device
\* could not be accessed or raised another DAQ error), the driver's connected
\* indicator is False.
C11_ConnectionFailureDisconnects ==
    /\ (ser_ret.op = "connect" /\ ser_ret.kind = "DeviceError") => ~ser_connected
    /\ ( /\ ser_ret.op \in {"read_voltage", "set_voltage"}
         /\ ser_ret.kind = "DeviceError"
         /\ ser_ret.sent # <<>>
         /\ ser_ret.n = None ) => ~ser_connected
    /\ ( /\ hvs_ret.kind = "DeviceError"
         /\ hvs_ret.hw \in {"DevCannotBeAccessedError", "DAQError"} ) => ~hvs_connected


SerReadOps == {"read_pressure", "read_temperature", "read_voltage"}

\* C12 (as claimed): a read operation that has read a response and does not
\* return a value raises DeviceError, in particular when the response passes
\* the framing checks and its payload is not a number.
C12_ReadFailuresAreDeviceError ==
    (ser_ret.op \in SerReadOps /\ ser_ret.nreads >= 1 /\ ser_ret.kind # "value") =>
        ser_ret.kind = "DeviceError"


\* C13 (as claimed): to_float raises DeviceError when the value does not parse
\* as a float and returns the parsed value otherwise; to_int raises DeviceError
\* when the value does not parse or the parsed value is not integral, and
\* returns the integer equal to the parsed value otherwise.
C13_CoercionFailsWithDeviceError ==
    LET v == PyFloat(fn_ret.arg) IN
    /\ fn_ret.op = "to_float" =>
        IF v = <<>> THEN fn_ret.kind = "DeviceError"
        ELSE fn_ret.kind = "value" /\ fn_ret.num = v
    /\ fn_ret.op = "to_int" =>
        IF v = <<>> \/ v[2] = 0 \/ v[1] % v[2] # 0 THEN fn_ret.kind = "DeviceError"
        ELSE /\ fn_ret.kind = "value"
             /\ fn_ret.num[2] = 1
             /\ fn_ret.num[1] * v[2] = v[1]


\* C14: init_visa raises DeviceError when the address is not among the listed
\* resources, and then opens no resource, sends no query and no command and
\* leaves visa_resource (None) and device_present (False) as they were;
\* device_present is True after init_visa only if the address was listed, the
\* resource was opened and the '*IDN?' query returned.
C14_UnlistedAddressFails ==
    [][InitVisaStep =>
        /\ ~vi_ret'.found =>
            /\ vi_ret'.kind = "DeviceError"
            /\ vi_ret'.opened = 0 /\ vi_ret'.queries = 0 /\ vi_ret'.writes = 0
            /\ vi_resource' = vi_resource
            /\ vi_resource = "none" => vi_resource' = "none"
            /\ ~vi_present'
        /\ vi_present' =>
            /\ vi_ret'.found
            /\ vi_ret'.opened = 1
            /\ vi_resource' = "open"
            /\ vi_ret'.queries = 1 /\ vi_ret'.text # <<>>
      ]_vars

\* C14 witness: init_visa has failed on an unlisted address of a device never
\* opened.
C14_Witness ==
    /\ vi_ret.op = "init_visa"
    /\ ~vi_ret.found
    /\ vi_ret.kind = "DeviceError"
    /\ vi_resource = "none"
    /\ ~vi_present

\* The identity init_visa received differs from the configured VISAIDN.
ViMismatch(ret) == ret.text # <<>> /\ vi_cfg.hasidn /\ ret.text # vi_cfg.idn

\* C15 (as claimed): when the identity received differs from VISAIDN, init_visa
\* does not raise, sets visa_warning, applies the configured timeout, sends the
\* configured CmdOnInit once and ends with device_present True; it does not set
\* visa_warning otherwise.
C15_MismatchNeverFatal ==
    [][InitVisaStep =>
        /\ ViMismatch(vi_ret') =>
            /\ vi_ret'.kind = "none"
            /\ vi_warning'
            /\ vi_cfg.timeout # None => vi_timeout' = vi_cfg.timeout * 1000
            /\ vi_ret'.writes = (IF vi_cfg.cmd THEN 1 ELSE 0)
            /\ vi_present'
        /\ ~ViMismatch(vi_ret') => vi_warning' = vi_warning
      ]_vars

\* C15 (amended): when the identity received differs from VISAIDN, init_visa
\* sets visa_warning, applies the configured timeout and sends the configured
\* CmdOnInit once; it raises (DeviceError) exactly when the write of CmdOnInit
\* fails and ends with device_present True exactly when it does not raise; it
\* does not change visa_warning otherwise.
C15_MismatchContinues ==
    [][\A found \in BOOLEAN, openok \in BOOLEAN, idnok \in BOOLEAN,
          reply \in ViReplies, cmdok \in BOOLEAN :
        InitVisa(found, openok, idnok, reply, cmdok) =>
            /\ ViMismatch(vi_ret') =>
                /\ vi_warning'
                /\ vi_cfg.timeout # None => vi_timeout' = vi_cfg.timeout * 1000
                /\ vi_ret'.writes = (IF vi_cfg.cmd THEN 1 ELSE 0)
                /\ vi_ret'.kind = (IF vi_cfg.cmd /\ ~cmdok THEN "DeviceError" ELSE "none")
                /\ vi_present' <=> vi_ret'.kind = "none"
            /\ ~ViMismatch(vi_ret') => vi_warning' = vi_warning
      ]_vars

\* C15 witness: init_visa has returned after a mismatch, with the warning set,
\* the timeout applied and CmdOnInit sent.
C15_Witness ==
    /\ vi_ret.op = "init_visa"
    /\ vi_ret.kind = "none"
    /\ vi_ret.text = <<"B">>
    /\ vi_cfg.hasidn
    /\ vi_warning
    /\ vi_timeout = 1000
    /\ vi_ret.writes = 1
    /\ vi_present


\* C16 (as claimed): with a timeout configured, no blocking call of a query or
\* of a DAQ read or write on a device that never answers waits longer than the
\* configured timeout, the operation ends, and a serial query ends with
\* DeviceError.
C16_BoundedByConfiguredTimeout ==
    /\ [](bq_timeout # None =>
            /\ bq_wait <= bq_timeout
            /\ bq_ret.waited <= bq_timeout)
    /\ []( ( bq_timeout # None /\ bq_pc = "done"
             /\ dut \in {"kjlc", "sim", "ctc", "mdt"} ) => bq_ret.kind = "DeviceError")
    /\ (bq_timeout # None /\ bq_pc = "reading") ~> (bq_pc = "done")

\* C16 (amended): with a timeout configured, no blocking call of a serial query
\* or of an hvsController read or write on a device that never answers waits
\* longer than the configured timeout, and the operation ends with DeviceError;
\* a read or write of NI9264andNI9205 waits no longer than 10 s, whatever is
\* configured, and ends with the DAQ library's error.
C16_SilentDeviceTerminates ==
    /\ []( ( bq_timeout # None /\ dut # "ni" ) =>
            /\ bq_wait <= bq_timeout
            /\ bq_ret.waited <= bq_timeout
            /\ bq_pc = "done" => bq_ret.kind = "DeviceError" )
    /\ []( dut = "ni" =>
            /\ bq_wait <= NiTimeout
            /\ bq_ret.waited <= NiTimeout
            /\ bq_pc = "done" => bq_ret.kind = "DAQError" )
    /\ (bq_pc = "reading" /\ (bq_timeout # None \/ dut = "ni")) ~> (bq_pc = "done")

\* C16 witness: ThorlabsMDT693B.query on a silent device has ended with
\* DeviceError after two reads that each waited for the configured timeout.
C16_Witness ==
    /\ dut = "mdt"
    /\ bq_timeout = 2
    /\ bq_pc = "done"
    /\ bq_ret.op = "query"
    /\ bq_ret.calls = 2
    /\ bq_ret.waited = 2
    /\ bq_ret.kind = "DeviceError"


\* The operations of the serial drivers that make one query.
SerQueryOps == {"query", "read_pressure", "read_temperature", "read_voltage"}

\* C17: a query operation is not retried: it hands the port one command, and
\* only if the port took all of it reads the response, once (ThorlabsMDT693B:
\* the response once and then the acknowledgement once, and not the
\* acknowledgement when the read of the response failed); a visa_query makes at
\* most one query on the resource and none without a resource.
C17_NoInternalRetry ==
    /\ ser_ret.op \in SerQueryOps =>
        /\ ser_ret.nreads <= (IF dut = "mdt" THEN 2 ELSE 1)
        /\ ser_ret.nreads >= 1 => ser_ret.sent # <<>> /\ ser_ret.n = Len(ser_ret.sent)
        /\ (ser_ret.sent # <<>> /\ ser_ret.n # Len(ser_ret.sent)) =>
                ser_ret.nreads = 0 /\ ser_ret.kind \notin {"value", "none"}
        /\ (dut = "mdt" /\ ser_ret.nreads = 1) => ser_ret.kind = "DeviceError"
        /\ ser_ret.kind = "value" => ser_ret.nreads = (IF dut = "mdt" THEN 2 ELSE 1)
    /\ vi_ret.op = "visa_query" =>
        /\ vi_ret.queries <= 1
        /\ vi_ret.writes = 0 /\ vi_ret.opened = 0
        /\ vi_ret.kind = "AttributeError" => vi_ret.queries = 0
        /\ vi_ret.kind = "value" => vi_ret.queries = 1

\* C17 witness: a query whose one read returned nothing has raised DeviceError.
C17_Witness ==
    /\ dut = "kjlc"
    /\ ser_ret.op = "query"
    /\ ser_ret.n = Len(ser_ret.sent)
    /\ ser_ret.rsp = <<>>
    /\ ser_ret.nreads = 1
    /\ ser_ret.kind = "DeviceError"


\* C18 (as claimed): a position converted to device steps and back differs from
\* the position by at most the position precision 1e-5 (10 millionths).
C18_RoundTripWithinPrecision ==
    fn_ret.op = "round_trip" =>
        LET back == fn_ret.position * Pow10(6 - PositionSigDigits) IN
        /\ back - fn_ret.x <= 10
        /\ fn_ret.x - back <= 10

\* The bits of the status word that StatusTable names.
StatusBits == {StatusTable[k][2] : k \in 1..Len(StatusTable)}

\* C19 (as claimed): for a status word with only bit N set, N in the table,
\* the flag of bit N is true and every other flag is false; a word with only a
\* bit outside the table set decodes as the word with no bit set.
C19_SingleBitSetsOneFlag ==
    fn_ret.op = "get_device_status" =>
        /\ \A N \in StatusBits :
            fn_ret.word = WordOf({N}) =>
                \A k \in 1..Len(StatusTable) :
                    (fn_ret.status[k] = 1) <=> (StatusTable[k][2] = N)
        /\ \A N \in (0..31) \ StatusBits :
            fn_ret.word = WordOf({N}) => fn_ret.status = GetDeviceStatus(<<0, 0>>)


\* C20: for SRSCTC100 (Device.serial_connect / serial_close) and
\* ThorlabsMDT693B (connect / close), device_connected is True exactly while
\* the port of the last successful open has not been closed; before any
\* successful open ser is None and both flags are False.  A failed open raises
\* DeviceError and leaves ser, device_present and device_connected as they
\* were; a successful open sets both flags; close sets device_connected False
\* and leaves device_present; no other operation changes the flags.
C20_ConnectedIffOpened ==
    /\ [](dut \in {"ctc", "mdt"} =>
            /\ ser_connected <=> ser_port = "open"
            /\ ser_port = "none" => ~ser_present /\ ~ser_connected
            /\ ser_present <=> ser_port # "none")
    /\ [][ /\ SerConnect =>
                IF ser_ret'.kind = "none"
                THEN ser_port' = "open" /\ ser_present' /\ ser_connected'
                ELSE /\ ser_ret'.kind = "DeviceError"
                     /\ UNCHANGED <<ser_port, ser_present, ser_connected>>
           /\ SerClose => ~ser_connected' /\ ser_port' # "open" /\ UNCHANGED ser_present
           /\ ~(SerConnect \/ SerClose) => UNCHANGED <<ser_port, ser_present, ser_connected>>
         ]_vars

\* C20 witness: after an open and a close, a failed open has left the port
\* closed, device_connected False and device_present True.
C20_Witness ==
    /\ dut \in {"ctc", "mdt"}
    /\ ser_ret.op = "connect"
    /\ ser_ret.kind = "DeviceError"
    /\ ser_port = "closed"
    /\ ser_present
    /\ ~ser_connected


\* C21 (as claimed): whenever an SDK call of a ThorlabsBC operation returned a
\* nonzero error code, the operation closed the SDK session and raised
\* DeviceError.
C21_SdkErrorClosesAndRaises ==
    bc_ret.sdkerr =>
        /\ bc_ret.kind = "DeviceError"
        /\ bc_ret.closes = 1
        /\ bc_session = "closed"


\* C22: close() of ThorlabsKPA101, ThorlabsK10CR1, SRSCTC100 and
\* ThorlabsMDT693B raises nothing in any state, leaves the driver marked not
\* connected and the transport not open, and calls the vendor object's close
\* only when the driver is connected (a serial port that was never opened is
\* not touched, one already closed stays closed).
C22_CloseIsSafe ==
    [][ /\ KpaClose =>
            /\ kpa_ret'.kind = "none"
            /\ ~kpa_device_connected'
            /\ kpa_handle' # "open"
            /\ kpa_ret'.vendor <=> kpa_handle = "open"
            /\ kpa_handle # "open" => kpa_handle' = kpa_handle
        /\ K10Close =>
            /\ k10_ret'.kind = "none"
            /\ ~k10_open'
            /\ k10_ret'.vendor <=> k10_open
        /\ SerClose =>
            /\ ser_ret'.kind = "none"
            /\ ~ser_connected'
            /\ ser_port' # "open"
            /\ ser_port # "open" => ser_port' = ser_port
      ]_vars

\* C22 witness: close() has returned on a ThorlabsKPA101 on which no
\* connection was ever open.
C22_Witness ==
    /\ dut = "kpa"
    /\ kpa_ret.op = "close"
    /\ kpa_ret.kind = "none"
    /\ kpa_handle = "none"
    /\ ~kpa_device_connected


\* C23: in every state of ThorlabsMDT693B and for every argument and every
\* behaviour of the port, set_voltage with an axis other than x, y, z or a
\* voltage below 0, and read_voltage with such an axis, raise DeviceError
\* having handed nothing to the port's write and read nothing; set_voltage
\* with a valid axis and a voltage >= 0 hands the port the one command
\* '<axis>voltage=<voltage>\n' and returns only if the port is open, took the
\* whole command, and the one byte read back is '>'.
C23_ValidatesBeforeTransmit ==
    dut = "mdt" =>
        /\ \A axis \in MdtAxes, voltage \in MdtVoltages, n \in 0..12,
              ioerr \in BOOLEAN, rerr \in BOOLEAN, ack \in MdtAcks :
            LET s == MdtSetVoltage(axis, voltage, n, ioerr, rerr, ack) IN
            IF axis \notin {"x", "y", "z"} \/ voltage < 0
            THEN s.kind = "DeviceError" /\ s.sent = <<>> /\ s.nreads = 0
            ELSE /\ s.sent = <<axis, "v", "o", "l", "t", "a", "g", "e", "=">>
                                \o FormatVoltage(voltage) \o <<"LF">>
                 /\ s.nreads <= 1
                 /\ s.kind = "none" =>
                        /\ ser_port = "open" /\ ~ioerr /\ n = Len(s.sent)
                        /\ s.nreads = 1 /\ ~rerr /\ ack = <<">">>
        /\ \A axis \in MdtAxes \ {"x", "y", "z"}, n \in 0..12, ioerr \in BOOLEAN,
              rerr \in BOOLEAN, response \in MdtReadUntil, ack \in MdtAcks :
            LET s == MdtReadVoltage(axis, n, ioerr, rerr, response, ack) IN
            s.kind = "DeviceError" /\ s.sent = <<>> /\ s.nreads = 0
        /\ ( ser_ret.op \in {"set_voltage", "read_voltage"} /\ ser_ret.sent = <<>> ) =>
                ser_ret.kind = "DeviceError" /\ ser_ret.nreads = 0

\* C23 witness: on an open port, set_voltage has raised DeviceError without
\* handing anything to the port.
C23_Witness ==
    /\ dut = "mdt"
    /\ ser_port = "open"
    /\ ser_ret.op = "set_voltage"
    /\ ser_ret.kind = "DeviceError"
    /\ ser_ret.sent = <<>>
    /\ ser_ret.nreads = 0


\* C24 (as claimed): a thread whose query has returned was handed the response
\* and the prompt the device sent for that thread's own command.
C24_OwnReply ==
    \A t \in Threads :
        tx_pc[t] = "done" => tx_got[t] = << <<"response", t>>, <<"prompt", t>> >>


\* C25 (as claimed): once connect has succeeded, the keys of the voltage cache
\* and of the setpoint table are the channel names in configuration order, and
\* the vector a set_voltage hands to WriteAnalogF64 has one value per control
\* channel created at connect.
C25_KeysAreChannelNames ==
    hvs_tasks = "started" =>
        /\ DictKeys(hvs_voltages) = [c \in 1..Len(hvs_channels) |-> hvs_channels[c].name]
        /\ DictKeys(hvs_write_voltages)
            = [c \in 1..Len(hvs_channels) |-> hvs_channels[c].name]
        /\ hvs_ret.op = "set_voltage" => Len(hvs_ret.written) = Len(hvs_ao)


C27_ReadingsFromOneCall ==
    /\ [](\E k \in 0..kpa_nreadings : kpa_cache = KpaReadings(k))
    /\ [][KpaReadStep =>
            /\ \/ /\ kpa_cache' = kpa_cache
                  /\ kpa_last_reading_time' = kpa_last_reading_time
               \/ /\ kpa_cache' = KpaReadings(kpa_nreadings')
                  /\ \A f \in DOMAIN kpa_cache : kpa_cache'[f] # kpa_cache[f]
                  /\ kpa_last_reading_time' = now
                  /\ kpa_ret'.kind = "value"
            /\ kpa_ret'.kind # "value" =>
                /\ kpa_cache' = kpa_cache
                /\ kpa_last_reading_time' = kpa_last_reading_time
                /\ KpaStale'
            /\ (KpaStale /\ kpa_device_connected) => kpa_ret'.vendor
       ]_vars

\* C27 witness: a property read whose refresh raised in the vendor's call, with
\* the cache and the timestamp still those of the first acquisition, after a
\* second acquisition attempt.
C27_Witness ==
    /\ kpa_ret.op \in KpaProps
    /\ kpa_ret.kind = "ThorlabsError"
    /\ kpa_cache = KpaReadings(1)
    /\ kpa_last_reading_time # None
    /\ now - kpa_last_reading_time > KpaCacheInterval


\* Bit k of the word w is set: w = hi * 2^(k+1) + 2^k + lo with lo < 2^k.
C28_BitSet(w, k) ==
    \E hi \in 0..w : LET lo == w - hi * 2^(k + 1) - 2^k IN lo >= 0 /\ lo < 2^k

\* The bit the claim names for each property.
C28_BitOf ==
    [power_sensor |-> 0, energy_sensor |-> 1, wavelength_settable |-> 5,
     temperature_sensor |-> 8]

\* C28: a sensor property that returns is true exactly when its bit of the
\* flags word (0, 1, 5, 8 for power_sensor, energy_sensor, wavelength_settable,
\* temperature_sensor) is set; for a word with only one of the four bits set
\* exactly the property of that bit is true; and changing any other bit of the
\* word does not change the property.
C28_FlagsDecoded ==
    (fn_ret.op \in PmSensorProps /\ fn_ret.kind = "value") =>
        LET k == C28_BitOf[fn_ret.op]
            w == fn_ret.flags
        IN
        /\ fn_ret.val = C28_BitSet(w, k)
        /\ \A j \in {0, 1, 5, 8} : w = 2^j => (fn_ret.val = (j = k))
        /\ \A b \in (0..(PmFlagBits - 1)) \ {k} :
            PmSensorFlag(fn_ret.op,
                         IF C28_BitSet(w, b) THEN w - 2^b ELSE w + 2^b) = fn_ret.val

\* C28 witness: wavelength_settable read as true from a word that has bit 5
\* and other bits set, but none of bits 0, 1 and 8.
C28_Witness ==
    /\ fn_ret.op = "wavelength_settable"
    /\ fn_ret.kind = "value"
    /\ fn_ret.val
    /\ fn_ret.flags = 2^5 + 2^7 + 2^2


\* C29 (as claimed): reading gate.delay sends the one query
\* ':GATE:STARt:DELay:TIME?' and returns its response; assigning gate.delay
\* sends one gate start delay-time command with the value; no access to
\* gate.delay sends a command that names the slope; and accesses to gate.slope
\* send only ':GATE:STARt:SLOPe?' or ':GATE:STARt:SLOPe <value>'.
C29_DelayAddressesDelay ==
    /\ (fn_ret.op = "gate.delay" /\ ~fn_ret.set) =>
        fn_ret.sent = << <<"query", ":GATE:STARt:DELay:TIME?", "">> >>
    /\ (fn_ret.op = "gate.delay" /\ fn_ret.set) =>
        /\ Len(fn_ret.sent) = 1
        /\ fn_ret.sent[1][1] = "write"
        /\ fn_ret.sent[1][2] \in {":GATE:STARt:DELay:TIME", "SENSe:GATE:STARt:DELay:TIME"}
        /\ fn_ret.sent[1][3] = fn_ret.arg
    /\ fn_ret.op = "gate.delay" =>
        \A i \in 1..Len(fn_ret.sent) :
            fn_ret.sent[i][2] \notin {":GATE:STARt:SLOPe?", ":GATE:STARt:SLOPe",
                                      "SENSe:GATE:STARt:SLOPe"}
    /\ fn_ret.op = "gate.slope" =>
        fn_ret.sent = IF fn_ret.set
                      THEN << <<"write", ":GATE:STARt:SLOPe", fn_ret.arg>> >>
                      ELSE << <<"query", ":GATE:STARt:SLOPe?", "">> >>

\* C30 (as claimed): assigning yunit of RigolRSA3000 or SiglentSSA3000XPlus, or
\* power.unit of ThorlabsPM100, a value outside the setter's list raises
\* DeviceError and sends nothing; assigning a listed value sends exactly one
\* write command with that value.
C30_UnlistedUnitRejected ==
    (fn_ret.op \in {"yunit", "power.unit"} /\ fn_ret.set) =>
        IF fn_ret.arg \in UnitList(dut)
        THEN /\ Len(fn_ret.sent) = 1
             /\ fn_ret.sent[1][1] = "write"
             /\ fn_ret.sent[1][3] = fn_ret.arg
        ELSE fn_ret.kind = "DeviceError" /\ fn_ret.sent = <<>>

====
